---------------------------- MODULE Spec2Model ----------------------------
(* A model of the GIF decoder of e-ink-pi: the grammar driver                *)
(* (formats/gif/better_decoder.rs), the block parsers (formats/gif/blocks),  *)
(* the LZW decompressor (formats/gif/lzw.rs) on top of the little-endian bit *)
(* reader (formats/bits.rs) and the raster canvas (image_buffer.rs).         *)
(*                                                                           *)
(* Bytes are naturals in 0..255, a byte stream is a sequence of bytes and    *)
(* the reader of the decoder (a `&[u8]`) is the sequence of the bytes not    *)
(* read yet.                                                                 *)
EXTENDS Integers, Sequences, FiniteSets, TLC

(***************************************************************************)
(* Bounds of the model                                                     *)
(***************************************************************************)
\* logical screen width and height range over 1..MaxDim
MaxDim == 2
\* a stream holds at most MaxImages well-formed images before its last block
MaxImages == 1

(***************************************************************************)
(* Sequences and bytes                                                     *)
(***************************************************************************)
Byte == 0..255

Take(s, n) == SubSeq(s, 1, IF n < Len(s) THEN n ELSE Len(s))

Drop(s, n) == SubSeq(s, (IF n < Len(s) THEN n ELSE Len(s)) + 1, Len(s))

RECURSIVE Pow2(_)
Pow2(n) == IF n = 0 THEN 1 ELSE 2 * Pow2(n - 1)

\* (value & mask) >> offset, for a mask of `width` one bits starting at `offset`
Bits(value, offset, width) == (value \div Pow2(offset)) % Pow2(width)

\* u16::from_le_bytes([lo, hi])
U16FromLe(lo, hi) == lo + 256 * hi

\* Whether byte i of s is a UTF-8 continuation byte
Cont(s, i) == s[i] \in 128..191

\* std::str::from_utf8 on a three byte slice: is it well-formed UTF-8?
IsUtf8Of3(s) ==
    \/ \A i \in 1..3 : s[i] < 128
    \/ s[1] < 128 /\ s[2] \in 194..223 /\ Cont(s, 3)
    \/ s[1] \in 194..223 /\ Cont(s, 2) /\ s[3] < 128
    \/ s[1] = 224 /\ s[2] \in 160..191 /\ Cont(s, 3)
    \/ s[1] \in (225..236) \cup (238..239) /\ Cont(s, 2) /\ Cont(s, 3)
    \/ s[1] = 237 /\ s[2] \in 128..159 /\ Cont(s, 3)

\* std::str::from_utf8(bytes).unwrap_or("").to_string(): the string, as its bytes
Utf8OrEmpty(s) == IF IsUtf8Of3(s) THEN s ELSE << >>

(***************************************************************************)
(* Results.  Every result is a record with a field `kind`.                 *)
(***************************************************************************)
Err(name, arg) == [kind |-> "Err", err |-> name, arg |-> arg]

Panic(msg) == [kind |-> "Panic", msg |-> msg]

Ok(value) == [kind |-> "Ok", value |-> value]

\* What a slice reader holds after read_exact has failed with UnexpectedEof:
\* the standard library leaves open how many bytes were consumed; its
\* implementations either leave the slice as it was or drain it.
AfterEof(rd) == {rd, << >>}

(***************************************************************************)
(* formats/gif/consts.rs                                                   *)
(***************************************************************************)
GIF_CONST_SIGNATURE == <<71, 73, 70>>      \* "GIF"

GIF_CONST_VERSION_87A == <<56, 55, 97>>    \* "87a"

GIF_CONST_VERSION_89A == <<56, 57, 97>>    \* "89a"

(***************************************************************************)
(* blocks/header.rs                                                        *)
(***************************************************************************)
HEADER_BLOCK_SIZE == 3 + 3

\* impl TryFrom<&[u8; 6]> for Header
HeaderTryFrom(value) ==
    LET signature_bytes == SubSeq(value, 1, 3)
        version_bytes == SubSeq(value, 4, 6)
    IN  IF signature_bytes # GIF_CONST_SIGNATURE
        THEN Err("HeaderParseError::Signature", Utf8OrEmpty(signature_bytes))
        ELSE IF version_bytes = GIF_CONST_VERSION_87A THEN Ok("Version87a")
        ELSE IF version_bytes = GIF_CONST_VERSION_89A THEN Ok("Version89a")
        ELSE Err("HeaderParseError::Signature", Utf8OrEmpty(version_bytes))

\* Header::parse: the result and the bytes left (eof: read_exact failed)
HeaderParse(rd) ==
    IF Len(rd) < HEADER_BLOCK_SIZE
    THEN [res |-> Err("HeaderParseError::Io", "UnexpectedEof"), eof |-> TRUE,
          rest |-> rd]
    ELSE [res |-> HeaderTryFrom(Take(rd, HEADER_BLOCK_SIZE)), eof |-> FALSE,
          rest |-> Drop(rd, HEADER_BLOCK_SIZE)]

\* impl From<HeaderParseError> for GIFParseError
GIFParseErrorFromHeader(e) ==
    IF e.err = "HeaderParseError::Signature" THEN Err("UnknownSignature", e.arg)
    ELSE IF e.err = "HeaderParseError::Version" THEN Err("UnknownVersion", e.arg)
    ELSE Err("Io", "io error during header decode")

(***************************************************************************)
(* blocks/logical_screen_descriptor.rs                                     *)
(***************************************************************************)
LSD_BLOCK_SIZE == 7

\* impl From<&[u8; 7]> for LogicalScreenDescriptor
LogicalScreenDescriptorFrom(value) ==
    [logical_screen_width |-> U16FromLe(value[1], value[2]),
     logical_screen_height |-> U16FromLe(value[3], value[4]),
     flags |-> value[5],
     background_color_index |-> value[6],
     pixel_aspect_ratio |-> value[7]]

\* flags & 0b10000000 != 0
global_color_table_flag(d) == Bits(d.flags, 7, 1) # 0

\* (flags & 0b1110000) >> 4
lsd_color_resolution(d) == Bits(d.flags, 4, 3)

\* flags & 0b1000 != 0
lsd_sort_flag(d) == Bits(d.flags, 3, 1) # 0

\* (flags & GLOBAL_COLOR_TABLE_SIZE_BITS) >> 0, the mask being 0b0
global_color_table_size(d) == Bits(d.flags, 0, 0)

\* LogicalScreenDescriptor::parse
LogicalScreenDescriptorParse(rd) ==
    IF Len(rd) < LSD_BLOCK_SIZE
    THEN [res |-> Err("Io", "io error during header decode"), eof |-> TRUE,
          rest |-> rd]
    ELSE [res |-> Ok(LogicalScreenDescriptorFrom(Take(rd, LSD_BLOCK_SIZE))),
          eof |-> FALSE, rest |-> Drop(rd, LSD_BLOCK_SIZE)]

(***************************************************************************)
(* Option values                                                           *)
(***************************************************************************)
None == [some |-> FALSE]

Some(x) == [some |-> TRUE, v |-> x]

(***************************************************************************)
(* blocks/color_table.rs                                                   *)
(***************************************************************************)
MAX_COLOR_TABLE_SIZE == 256

RGBDefault == <<0, 0, 0>>

\* ColorTable::calculate_size: 3 * (2 << (size_flag as usize + 1))
calculate_size(size_flag) == 3 * (2 * Pow2(size_flag + 1))

\* The entries try_from_reader fills from n bytes of data: entry i / 3 for
\* every i in (0..n).step_by(3).  The table's array holds 256 entries; the
\* model keeps the filled ones and reads every other entry as RGB::default().
FilledEntries(data, n) ==
    [k \in 1..((n + 2) \div 3) |-> <<data[3 * k - 2], data[3 * k - 1], data[3 * k]>>]

\* ColorTable::try_from_reader: reader.take(size).read(..) on a slice reads
\* min(size, remaining) bytes in one call
ColorTableTryFromReader(rd, size_flag, sorted) ==
    LET size == calculate_size(size_flag)
        n == IF Len(rd) < size THEN Len(rd) ELSE size
        empty == [entries |-> << >>, size |-> size, sorted |-> sorted]
    IN  IF size > MAX_COLOR_TABLE_SIZE
        THEN [res |-> Err("ColorTableParseError::TooLarge", << >>), rest |-> rd]
        ELSE IF n = 0
        THEN [res |-> Ok(empty), rest |-> rd]
        ELSE IF n = size
        THEN [res |-> Ok([empty EXCEPT !.entries = FilledEntries(rd, n)]),
              rest |-> Drop(rd, n)]
        ELSE [res |-> Err("ColorTableParseError::NotEnoughData", << >>),
              rest |-> Drop(rd, n)]

\* table.data[i]
TableData(table, i) ==
    IF i + 1 <= Len(table.entries) THEN table.entries[i + 1] ELSE RGBDefault

\* ColorTableLookup::lookup_fallback
lookup_fallback(table, color_index) ==
    IF color_index >= table.size THEN RGBDefault ELSE TableData(table, color_index)

\* impl From<ColorTableParseError> for GIFParseError
GIFParseErrorFromColorTable(e) ==
    IF e.err = "ColorTableParseError::TooLarge"
    THEN Err("InvalidColorTable", "color table to too small")
    ELSE IF e.err = "ColorTableParseError::NotEnoughData"
    THEN Err("InvalidColorTable", "color table to small")
    ELSE Err("Io", "io error during color table parse")

(***************************************************************************)
(* blocks/graphic_control_extension.rs                                     *)
(***************************************************************************)
GCE_BLOCK_SIZE == 4

GCE_READ_SIZE == GCE_BLOCK_SIZE + 1 + 1

\* GraphicControlExtension::parse with delay_time read as
\* u16::from_be_bytes([buf[2], buf[3]])
GraphicControlExtensionParse_BigEndianDelay(rd) ==
    LET buf == Take(rd, GCE_READ_SIZE)
    IN  IF Len(rd) < GCE_READ_SIZE
        THEN [res |-> Err("GraphicControlExtensionParseError::Io", << >>),
              eof |-> TRUE, rest |-> rd]
        ELSE IF buf[1] # GCE_BLOCK_SIZE
        THEN [res |-> Err("GraphicControlExtensionParseError::InvalidBlockSize", buf[1]),
              eof |-> FALSE, rest |-> Drop(rd, GCE_READ_SIZE)]
        ELSE IF buf[6] # 0
        THEN [res |-> Err("GraphicControlExtensionParseError::InvalidBlockTerminator", << >>),
              eof |-> FALSE, rest |-> Drop(rd, GCE_READ_SIZE)]
        ELSE [res |-> Ok([flags |-> buf[2],
                          delay_time |-> U16FromLe(buf[4], buf[3]),
                          transparent_color_index |-> buf[5]]),
              eof |-> FALSE, rest |-> Drop(rd, GCE_READ_SIZE)]

\* GraphicControlExtension::parse
GraphicControlExtensionParse(rd) ==
    LET buf == Take(rd, GCE_READ_SIZE)
    IN  IF Len(rd) < GCE_READ_SIZE
        THEN [res |-> Err("GraphicControlExtensionParseError::Io", << >>),
              eof |-> TRUE, rest |-> rd]
        ELSE IF buf[1] # GCE_BLOCK_SIZE
        THEN [res |-> Err("GraphicControlExtensionParseError::InvalidBlockSize", buf[1]),
              eof |-> FALSE, rest |-> Drop(rd, GCE_READ_SIZE)]
        ELSE IF buf[6] # 0
        THEN [res |-> Err("GraphicControlExtensionParseError::InvalidBlockTerminator", << >>),
              eof |-> FALSE, rest |-> Drop(rd, GCE_READ_SIZE)]
        ELSE [res |-> Ok([flags |-> buf[2],
                          delay_time |-> U16FromLe(buf[3], buf[4]),
                          transparent_color_index |-> buf[5]]),
              eof |-> FALSE, rest |-> Drop(rd, GCE_READ_SIZE)]

\* GraphicControlExtension::DISPOSAL_METHOD, the mask 0b11100
DISPOSAL_METHOD == 28

DISPOSAL_METHOD_OFFSET == 2

\* impl From<u8> for DisposalMethod (gif.rs)
DisposalMethodFrom(value) ==
    CASE value = 0 -> "DisposalMethod::NoDisposal"
      [] value = 1 -> "DisposalMethod::DoNotDispose"
      [] value = 2 -> "DisposalMethod::RestoreBackground"
      [] value = 3 -> "DisposalMethod::RestoreBackground"
      [] OTHER -> "DisposalMethod::NoDisposal"

\* a & b for two bytes
BitAnd8(a, b) ==
    LET bit(x, i) == (x \div Pow2(i)) % 2
        and(i) == IF bit(a, i) = 1 /\ bit(b, i) = 1 THEN Pow2(i) ELSE 0
    IN  and(0) + and(1) + and(2) + and(3) + and(4) + and(5) + and(6) + and(7)

\* GraphicControlExtension::disposal_method
disposal_method(gce) ==
    DisposalMethodFrom(BitAnd8(gce.flags, DISPOSAL_METHOD) \div Pow2(DISPOSAL_METHOD_OFFSET))

\* impl From<GraphicControlExtensionParseError> for GIFParseError
GIFParseErrorFromGCE(e) ==
    IF e.err = "GraphicControlExtensionParseError::InvalidBlockSize"
    THEN Err("UnexpectedBlockSize", [got |-> e.arg, expected |-> GCE_BLOCK_SIZE])
    ELSE IF e.err = "GraphicControlExtensionParseError::InvalidBlockTerminator"
    THEN Err("InvalidBlockTerminator", << >>)
    ELSE Err("Io", "io error (likely EOF) during graphic control extension block reading/parsing")

(***************************************************************************)
(* blocks/decoding.rs                                                      *)
(***************************************************************************)
\* read_n_byte::<n>: one call of reader.read, which on a slice takes
\* min(n, remaining) bytes; fewer than n is an UnexpectedEof error
read_n_byte(rd, n) ==
    IF n = 0 THEN [res |-> Ok(<< >>), rest |-> rd]
    ELSE IF Len(rd) < n
    THEN [res |-> Err("Io", "UnexpectedEof"), rest |-> << >>]
    ELSE [res |-> Ok(Take(rd, n)), rest |-> Drop(rd, n)]

\* read_subblock's loop with the length byte kept in front of each payload
RECURSIVE read_subblock_loop_KeepsLength(_, _)
read_subblock_loop_KeepsLength(rd, buf) ==
    IF Len(rd) < 1
    THEN [res |-> Err("Io", "UnexpectedEof"), eof |-> TRUE, rest |-> rd]
    ELSE LET size == rd[1]
             after == Drop(rd, 1)
         IN  IF size = 0
             THEN [res |-> Ok(buf), eof |-> FALSE, rest |-> after]
             ELSE IF Len(after) < size
             THEN [res |-> Err("Io", "UnexpectedEof"), eof |-> TRUE, rest |-> after]
             ELSE read_subblock_loop_KeepsLength(Drop(after, size),
                                                 buf \o Take(rd, size + 1))

\* read_subblock: the loop, with the bytes gathered so far in buf
RECURSIVE read_subblock_loop(_, _)
read_subblock_loop(rd, buf) ==
    IF Len(rd) < 1
    THEN [res |-> Err("Io", "UnexpectedEof"), eof |-> TRUE, rest |-> rd]
    ELSE LET size == rd[1]
             after == Drop(rd, 1)
         IN  IF size = 0
             THEN [res |-> Ok(buf), eof |-> FALSE, rest |-> after]
             ELSE IF Len(after) < size
             THEN [res |-> Err("Io", "UnexpectedEof"), eof |-> TRUE, rest |-> after]
             ELSE read_subblock_loop(Drop(after, size), buf \o Take(after, size))

read_subblock(rd) == read_subblock_loop(rd, << >>)

\* skip_subblock: the same loop, keeping nothing
RECURSIVE skip_subblock(_)
skip_subblock(rd) ==
    IF Len(rd) < 1
    THEN [res |-> Err("Io", "UnexpectedEof"), eof |-> TRUE, rest |-> rd]
    ELSE LET size == rd[1]
             after == Drop(rd, 1)
         IN  IF size = 0
             THEN [res |-> Ok(<< >>), eof |-> FALSE, rest |-> after]
             ELSE IF Len(after) < size
             THEN [res |-> Err("Io", "UnexpectedEof"), eof |-> TRUE, rest |-> after]
             ELSE skip_subblock(Drop(after, size))

(***************************************************************************)
(* blocks/application_extension.rs                                         *)
(***************************************************************************)
APP_BLOCK_SIZE == 11

APP_READ_SIZE == APP_BLOCK_SIZE + 1

\* <[u8; n]>::try_from(slice): an array only of a slice of exactly n bytes
ArrayTryFrom(slice, n) ==
    IF Len(slice) = n THEN Ok(slice) ELSE Err("TryFromSliceError", << >>)

\* buf[from..to] of a 0-based array held as a sequence
Range(buf, from, to) == SubSeq(buf, from + 1, to)

\* ApplicationExtension::parse: the 12 bytes, the size check, the chain of
\* sub-blocks, then the identifier from buf[1..10] and the code from
\* buf[10..], each unwrapped with expect
ApplicationExtensionParse(rd) ==
    LET buf == Take(rd, APP_READ_SIZE)
        sub == read_subblock(Drop(rd, APP_READ_SIZE))
        application_identifier == ArrayTryFrom(Range(buf, 1, 10), 8)
        application_code == ArrayTryFrom(Range(buf, 10, APP_READ_SIZE), 3)
    IN  IF Len(rd) < APP_READ_SIZE
        THEN [res |-> Err("ApplicationExtensionParseError::Io", << >>),
              eof |-> TRUE, rest |-> rd]
        ELSE IF buf[1] # APP_BLOCK_SIZE
        THEN [res |-> Err("ApplicationExtensionParseError::InvalidBlockSize", << >>),
              eof |-> FALSE, rest |-> Drop(rd, APP_READ_SIZE)]
        ELSE IF sub.res.kind = "Err"
        THEN [res |-> Err("ApplicationExtensionParseError::Io", << >>),
              eof |-> sub.eof, rest |-> sub.rest]
        ELSE IF application_identifier.kind = "Err" \/ application_code.kind = "Err"
        THEN [res |-> Panic("cannot transform Range to const array"),
              eof |-> FALSE, rest |-> sub.rest]
        ELSE [res |-> Ok([application_identifier |-> application_identifier.value,
                          application_code |-> application_code.value,
                          application_data |-> sub.res.value]),
              eof |-> FALSE, rest |-> sub.rest]

(***************************************************************************)
(* formats/bits.rs: LittleEndianReader.  A reader is a record               *)
(* [reader, value, bits]: the bytes not read yet, the buffered byte and the *)
(* number of bits of it that are still to be handed out.                    *)
(***************************************************************************)
LittleEndianReaderNew(data) == [reader |-> data, value |-> 0, bits |-> 0]

\* take_n: mask = 1u8.wrapping_shl(bits) - 1, value >>= bits, bits -= bits.
\* A shift by 8 or more and a subtraction below zero are arithmetic
\* overflows (a panic with overflow checks, a wrapped result without):
\* `overflow` records that one happened.
take_n(br, bits) ==
    [buf |-> br.value % Pow2(bits % 8),
     br |-> [br EXCEPT !.value = br.value \div Pow2(bits % 8),
                       !.bits = (br.bits - bits) % 256],
     overflow |-> bits >= 8 \/ bits > br.bits]

\* fill_buffer
fill_buffer(br) ==
    IF Len(br.reader) < 1
    THEN [ok |-> FALSE, br |-> [br EXCEPT !.bits = 0]]
    ELSE [ok |-> TRUE,
          br |-> [reader |-> Drop(br.reader, 1), value |-> br.reader[1], bits |-> 8]]

\* read_n, the loop `while bits - pos >= 8`: whole bytes are or-ed into
\* intermediate at bit position pos
RECURSIVE read_n_bytes(_, _, _, _)
read_n_bytes(br, bits, pos, intermediate) ==
    IF bits - pos >= 8
    THEN IF Len(br.reader) < 1
         THEN [ok |-> FALSE, br |-> br, pos |-> pos, intermediate |-> intermediate]
         ELSE read_n_bytes([br EXCEPT !.reader = Drop(br.reader, 1)], bits, pos + 8,
                           intermediate + br.reader[1] * Pow2(pos))
    ELSE [ok |-> TRUE, br |-> br, pos |-> pos, intermediate |-> intermediate]

\* read_n::<U>(bits) for an unsigned U of UBITS bits
read_n(br, bits, UBITS) ==
    IF bits > UBITS
    THEN [res |-> Err("BitsReadError::UnsufficiantTypeSize", << >>), br |-> br]
    ELSE IF br.bits >= bits
    THEN LET t == take_n(br, bits)
         IN  IF t.overflow
             THEN [res |-> Panic("arithmetic overflow in take_n"), br |-> t.br]
             ELSE [res |-> Ok(t.buf), br |-> t.br]
    ELSE LET t == take_n(br, br.bits)           \* take_all_buffered
             w == read_n_bytes(t.br, bits, br.bits, t.buf)
         IN  IF t.overflow
             THEN [res |-> Panic("arithmetic overflow in take_n"), br |-> t.br]
             ELSE IF ~w.ok
             THEN [res |-> Err("BitsReadError::UnexpectedEOF", << >>), br |-> w.br]
             ELSE IF bits - w.pos # 0
             THEN LET f == fill_buffer(w.br)
                      l == take_n(f.br, bits - w.pos)
                  IN  IF ~f.ok
                      THEN [res |-> Err("BitsReadError::UnexpectedEOF", << >>),
                            br |-> f.br]
                      ELSE [res |-> Ok(w.intermediate + l.buf * Pow2(w.pos)),
                            br |-> l.br]
             ELSE [res |-> Ok(w.intermediate), br |-> [w.br EXCEPT !.bits = 0]]

\* a read_bit that fills the buffer again as soon as it has emptied it
read_bit_Eager(br) ==
    LET f == IF br.bits = 0 THEN fill_buffer(br) ELSE [ok |-> TRUE, br |-> br]
        after == [f.br EXCEPT !.value = f.br.value \div 2, !.bits = f.br.bits - 1]
    IN  IF ~f.ok THEN [res |-> Err("Io", "UnexpectedEof"), br |-> f.br]
        ELSE [res |-> Ok(f.br.value % 2 = 1),
              br |-> IF after.bits = 0 THEN fill_buffer(after).br ELSE after]

\* read_bit: the buffer is filled if it is empty, then its lowest bit is
\* handed out
read_bit(br) ==
    LET f == IF br.bits = 0 THEN fill_buffer(br) ELSE [ok |-> TRUE, br |-> br]
    IN  IF ~f.ok THEN [res |-> Err("Io", "UnexpectedEof"), br |-> f.br]
        ELSE [res |-> Ok(f.br.value % 2 = 1),
              br |-> [f.br EXCEPT !.value = f.br.value \div 2,
                                  !.bits = f.br.bits - 1]]

(***************************************************************************)
(* read_n::<U> for every width.  Its u128 `intermediate` is kept as the    *)
(* sequence of its 16 bytes, least significant first, and a primitive type *)
(* U as a record [name, BITS, signed]: the integer types of lines 26-33.   *)
(***************************************************************************)
U128_BYTES == 16

PrimitiveType(name, bytes, signed) ==
    [name |-> name, BITS |-> bytes * 8, signed |-> signed]

\* x as u128, for a byte x
U128From(x) == [k \in 1..U128_BYTES |-> IF k = 1 THEN x ELSE 0]

\* a | b for two bytes
BitOr8(a, b) ==
    LET bit(x, i) == (x \div Pow2(i)) % 2
        or(i) == IF bit(a, i) = 1 \/ bit(b, i) = 1 THEN Pow2(i) ELSE 0
    IN  or(0) + or(1) + or(2) + or(3) + or(4) + or(5) + or(6) + or(7)

\* x | y for two u128
BitOr128(x, y) ==
    [k \in 1..U128_BYTES |->
        IF y[k] = 0 THEN x[k] ELSE IF x[k] = 0 THEN y[k] ELSE BitOr8(x[k], y[k])]

\* (x as u128).wrapping_shl(pos) for a byte x: the shift is taken modulo 128
wrapping_shl(x, pos) ==
    LET p == pos % (8 * U128_BYTES)
    IN  [k \in 1..U128_BYTES |->
            IF k - 1 = p \div 8 THEN (x * Pow2(p % 8)) % 256
            ELSE IF k - 1 = p \div 8 + 1 THEN x \div Pow2(8 - (p % 8))
            ELSE 0]

\* bit i of a u128
BitOf(x, i) == (x[i \div 8 + 1] \div Pow2(i % 8)) % 2

\* U::from_u128 and U::from_u8 (num_traits::FromPrimitive): the value if U
\* holds it, which is below 2^BITS for an unsigned U and below 2^(BITS - 1)
\* for a signed one
FromU128(U, x) ==
    LET top == IF U.signed THEN U.BITS - 1 ELSE U.BITS
    IN  IF \E i \in top..(8 * U128_BYTES - 1) : BitOf(x, i) = 1
        THEN Err("BitsReadError::ConvertFromU8", << >>)
        ELSE Ok(x)

\* a loop that takes the bytes the stream lacks for zero
RECURSIVE read_n_bytes_u128_PadsZero(_, _, _, _)
read_n_bytes_u128_PadsZero(br, bits, pos, intermediate) ==
    IF bits - pos >= 8
    THEN read_n_bytes_u128_PadsZero(
             [br EXCEPT !.reader = Drop(br.reader, 1)], bits, pos + 8,
             IF Len(br.reader) < 1 THEN intermediate
             ELSE BitOr128(intermediate, wrapping_shl(br.reader[1], pos)))
    ELSE [ok |-> TRUE, br |-> br, pos |-> pos, intermediate |-> intermediate]

\* read_n, the loop `while bits - pos >= 8` with the u128 intermediate
RECURSIVE read_n_bytes_u128(_, _, _, _)
read_n_bytes_u128(br, bits, pos, intermediate) ==
    IF bits - pos >= 8
    THEN IF Len(br.reader) < 1
         THEN [ok |-> FALSE, br |-> br, pos |-> pos, intermediate |-> intermediate]
         ELSE read_n_bytes_u128([br EXCEPT !.reader = Drop(br.reader, 1)], bits, pos + 8,
                                BitOr128(intermediate, wrapping_shl(br.reader[1], pos)))
    ELSE [ok |-> TRUE, br |-> br, pos |-> pos, intermediate |-> intermediate]

\* read_n::<U>(bits): what it returns, the value as a u128, and the reader
\* after it
read_n_u128(br, bits, U) ==
    IF bits > U.BITS
    THEN [res |-> Err("BitsReadError::UnsufficiantTypeSize", << >>), br |-> br]
    ELSE IF br.bits >= bits
    THEN LET t == take_n(br, bits)
         IN  IF t.overflow
             THEN [res |-> Panic("arithmetic overflow in take_n"), br |-> t.br]
             ELSE [res |-> FromU128(U, U128From(t.buf)), br |-> t.br]
    ELSE LET t == take_n(br, br.bits)           \* take_all_buffered
             w == read_n_bytes_u128(t.br, bits, br.bits, U128From(t.buf))
         IN  IF t.overflow
             THEN [res |-> Panic("arithmetic overflow in take_n"), br |-> t.br]
             ELSE IF ~w.ok
             THEN [res |-> Err("BitsReadError::UnexpectedEOF", << >>), br |-> w.br]
             ELSE IF bits - w.pos # 0
             THEN LET f == fill_buffer(w.br)
                      l == take_n(f.br, bits - w.pos)
                  IN  IF ~f.ok
                      THEN [res |-> Err("BitsReadError::UnexpectedEOF", << >>),
                            br |-> f.br]
                      ELSE IF l.overflow
                      THEN [res |-> Panic("arithmetic overflow in take_n"), br |-> l.br]
                      ELSE [res |-> FromU128(U, BitOr128(w.intermediate,
                                                         wrapping_shl(l.buf, w.pos))),
                            br |-> l.br]
             ELSE [res |-> FromU128(U, w.intermediate),
                   br |-> [w.br EXCEPT !.bits = 0]]

(***************************************************************************)
(* formats/bits.rs, LittleEndianWriter over a Vec<u8>: `writer` is the     *)
(* bytes written out, `buf` the one byte of the buffer, `pos` the number   *)
(* of bits the buffer holds.  Writing to a Vec does not fail.              *)
(***************************************************************************)
LittleEndianWriterNew == [writer |-> << >>, buf |-> 0, pos |-> 0]

\* (x << n) as u8 for a byte x and n < 8: the bits shifted out are lost
Shl8(x, n) == (x * Pow2(n)) % 256

\* LittleEndianWriter::write_out_internal
write_out_internal(w) ==
    IF w.pos > 0
    THEN [writer |-> Append(w.writer, w.buf), buf |-> 0, pos |-> 0]
    ELSE w

\* LittleEndianWriter::write_internal.  `remaining` is 8 when pos is 0, and
\* a shift of a u8 by 8 is an overflow: a panic with overflow checks, and
\* without them a shift by 8 % 8 = 0.
write_internal(w, data, bits, checks) ==
    LET remaining == 8 - w.pos
        fill == bits >= remaining
        mask == Pow2(remaining % 8) - 1
        filled == write_out_internal(
                      [w EXCEPT !.buf = BitOr8(w.buf, Shl8(BitAnd8(data, mask), w.pos))])
        w1 == IF fill THEN filled ELSE w
        data1 == IF fill THEN data \div Pow2(remaining % 8) ELSE data
        bits1 == IF fill THEN bits - remaining ELSE bits
        w2 == [w1 EXCEPT !.buf = BitOr8(w1.buf, Shl8(data1, w1.pos)),
                         !.pos = w1.pos + bits1]
    IN  IF fill /\ remaining = 8 /\ checks
        THEN [res |-> Panic("attempt to shift left with overflow"), w |-> w]
        ELSE IF bits1 > 0
        THEN [res |-> Ok(<< >>),
              w |-> IF w2.pos = 8 THEN write_out_internal(w2) ELSE w2]
        ELSE [res |-> Ok(<< >>), w |-> w1]

\* LittleEndianWriter::flush
flush(w) == [res |-> Ok(<< >>), w |-> write_out_internal(w)]

(***************************************************************************)
(* formats/gif/lzw.rs.  The codebook's arrays `prefix` and `suffix` hold   *)
(* 4096 entries; the model keeps the entries that were written (`prefix`:  *)
(* the entries that are Some, `suffix`: the entries written after init)    *)
(* and reads the others as init left them.                                 *)
(***************************************************************************)
MAX_TABLE_SIZE == 4096

MAX_CODE_VALUE == 4095

CODE_BITS == 16

EmptyMap == [c \in {} |-> 0]

MapPut(f, k, v) == (k :> v) @@ f

\* codebook.prefix[code]
PrefixOf(cb, code) == IF code \in DOMAIN cb.prefix THEN Some(cb.prefix[code]) ELSE None

\* codebook.suffix[code]: init sets suffix[code] = code as u8 below clear_code
SuffixOf(cb, code) ==
    IF code \in DOMAIN cb.suffix THEN cb.suffix[code]
    ELSE IF code < cb.clear_code THEN code % 256 ELSE 0

\* CodeBook::new and init.  clear_code = 1u16 << minimum_code_size overflows
\* for a shift of 16 or more: a panic when the build checks overflow, else the
\* shift amount wraps (checks: whether the build checks).  init indexes the
\* arrays with every code below clear_code.
CodeBookNew(minimum_code_size, checks) ==
    LET clear_code == Pow2(minimum_code_size % CODE_BITS)
    IN  IF minimum_code_size >= CODE_BITS /\ checks
        THEN Panic("attempt to shift left with overflow")
        ELSE IF clear_code > MAX_TABLE_SIZE
        THEN Panic("index out of bounds")
        ELSE Ok([prefix |-> EmptyMap, suffix |-> EmptyMap, next_index |-> None,
                 clear_code |-> clear_code,
                 end_of_information_code |-> clear_code + 1])

\* a codebook that counts as full one entry later
is_full_OneLater(cb) == cb.next_index.some /\ cb.next_index.v >= MAX_TABLE_SIZE

\* CodeBook::is_full
is_full(cb) == cb.next_index.some /\ cb.next_index.v >= MAX_CODE_VALUE

\* a test that is true one index early
is_power_of_two_OneEarly(n) == \E k \in 0..CODE_BITS : n + 1 = Pow2(k)

\* usize::is_power_of_two
is_power_of_two(n) == \E k \in 0..CODE_BITS : n = Pow2(k)

\* CodeBook::increment_next_index returning true for every index it advances to
increment_next_index_AlwaysWidens(cb) ==
    IF is_full(cb) THEN [cb |-> cb, ret |-> FALSE]
    ELSE IF ~cb.next_index.some
    THEN [cb |-> [cb EXCEPT !.next_index = Some(cb.clear_code + 2)], ret |-> TRUE]
    ELSE [cb |-> [cb EXCEPT !.next_index = Some(cb.next_index.v + 1)], ret |-> TRUE]

\* CodeBook::increment_next_index: the codebook after it and what it returns
increment_next_index(cb) ==
    IF is_full(cb) THEN [cb |-> cb, ret |-> FALSE]
    ELSE IF ~cb.next_index.some
    THEN [cb |-> [cb EXCEPT !.next_index = Some(cb.clear_code + 2)], ret |-> FALSE]
    ELSE [cb |-> [cb EXCEPT !.next_index = Some(cb.next_index.v + 1)],
          ret |-> is_power_of_two(cb.next_index.v + 1)]

\* a clear that keeps the learned prefixes
CodeBookClear_KeepsPrefix(cb) == [cb EXCEPT !.next_index = None]

\* CodeBook::clear
CodeBookClear(cb) == [cb EXCEPT !.next_index = None, !.prefix = EmptyMap]

\* CodeBook::size
CodeBookSize(cb) == IF cb.next_index.some THEN cb.next_index.v ELSE 0

\* output[offset..offset + length] is in bounds
SliceOk(output, offset, length) == offset + length <= Len(output)

Slice(output, offset, length) == SubSeq(output, offset + 1, offset + length)

\* the end of an iteration that begins the new code at the end of the output
\* and not at the start of the word just decoded
LzwAdvance_OffsetAtEnd(cb, output, current_code_bits, current_decoded_length) ==
    LET inc == increment_next_index(cb)
        bits == IF inc.ret THEN current_code_bits + 1 ELSE current_code_bits
        cb2 == IF ~is_full(inc.cb)
               THEN [inc.cb EXCEPT !.prefix =
                        MapPut(inc.cb.prefix, inc.cb.next_index.v,
                               <<Len(output), current_decoded_length>>)]
               ELSE inc.cb
    IN  [cb |-> cb2, output |-> output, bits |-> bits]

\* The end of one iteration of the normal decode flow (lines 297-310): advance
\* next_index, widen the code, begin the new incomplete code.
LzwAdvance(cb, output, current_code_bits, current_decoded_length) ==
    LET inc == increment_next_index(cb)
        bits == IF inc.ret THEN current_code_bits + 1 ELSE current_code_bits
        cb2 == IF ~is_full(inc.cb)
               THEN [inc.cb EXCEPT !.prefix =
                        MapPut(inc.cb.prefix, inc.cb.next_index.v,
                               <<Len(output) - current_decoded_length,
                                 current_decoded_length>>)]
               ELSE inc.cb
    IN  [cb |-> cb2, output |-> output, bits |-> bits]

\* a decoder that ends the word of the code being defined with the suffix the
\* table holds for it and not with the first symbol of the word before
LzwDataCode_StaleSuffix(cb, output, code) ==
    IF ~cb.next_index.some
    THEN IF code >= cb.clear_code
         THEN Err("LZWDecodeError::TooLargeCode", <<code, CodeBookSize(cb)>>)
         ELSE Ok([cb |-> cb, output |-> Append(output, SuffixOf(cb, code)), len |-> 1])
    ELSE LET cur == cb.next_index.v
             pre == PrefixOf(cb, code)
         IN  IF code < cur
             THEN IF pre.some
                  THEN IF ~SliceOk(output, pre.v[1], pre.v[2]) \/ pre.v[1] >= Len(output)
                       THEN Panic("slice index out of range")
                       ELSE Ok([cb |-> [cb EXCEPT !.suffix =
                                          MapPut(cb.suffix, cur, output[pre.v[1] + 1])],
                                output |-> Append(output \o Slice(output, pre.v[1], pre.v[2]),
                                                  SuffixOf(cb, code)),
                                len |-> 1 + pre.v[2]])
                  ELSE Ok([cb |-> [cb EXCEPT !.suffix =
                                     MapPut(cb.suffix, cur, SuffixOf(cb, code))],
                           output |-> Append(output, SuffixOf(cb, code)),
                           len |-> 1])
             ELSE IF code = cur
             THEN IF ~pre.some
                  THEN Err("LZWDecodeError::PrefixMismatch", "no prefix from last code")
                  ELSE IF pre.v[2] = 0
                  THEN Err("LZWDecodeError::PrefixMismatch", "zero length prefix from last code")
                  ELSE IF ~SliceOk(output, pre.v[1], pre.v[2]) \/ pre.v[1] >= Len(output)
                  THEN Panic("slice index out of range")
                  ELSE Ok([cb |-> [cb EXCEPT !.suffix =
                                     MapPut(cb.suffix, cur, output[pre.v[1] + 1])],
                           output |-> Append(output \o Slice(output, pre.v[1], pre.v[2]),
                                             SuffixOf(cb, code)),
                           len |-> 1 + pre.v[2]])
             ELSE Err("LZWDecodeError::TooLargeCode", <<code, CodeBookSize(cb)>>)

\* One data code of the normal decode flow (lines 230-295): the codebook and
\* output after it, or the error
LzwDataCode(cb, output, code) ==
    IF ~cb.next_index.some
    THEN IF code >= cb.clear_code
         THEN Err("LZWDecodeError::TooLargeCode", <<code, CodeBookSize(cb)>>)
         ELSE Ok([cb |-> cb, output |-> Append(output, SuffixOf(cb, code)), len |-> 1])
    ELSE LET cur == cb.next_index.v
             pre == PrefixOf(cb, code)
         IN  IF code < cur
             THEN IF pre.some
                  THEN IF ~SliceOk(output, pre.v[1], pre.v[2]) \/ pre.v[1] >= Len(output)
                       THEN Panic("slice index out of range")
                       ELSE Ok([cb |-> [cb EXCEPT !.suffix =
                                          MapPut(cb.suffix, cur, output[pre.v[1] + 1])],
                                output |-> Append(output \o Slice(output, pre.v[1], pre.v[2]),
                                                  SuffixOf(cb, code)),
                                len |-> 1 + pre.v[2]])
                  ELSE Ok([cb |-> [cb EXCEPT !.suffix =
                                     MapPut(cb.suffix, cur, SuffixOf(cb, code))],
                           output |-> Append(output, SuffixOf(cb, code)),
                           len |-> 1])
             ELSE IF code = cur
             THEN IF ~pre.some
                  THEN Err("LZWDecodeError::PrefixMismatch", "no prefix from last code")
                  ELSE IF pre.v[2] = 0
                  THEN Err("LZWDecodeError::PrefixMismatch", "zero length prefix from last code")
                  ELSE IF ~SliceOk(output, pre.v[1], pre.v[2]) \/ pre.v[1] >= Len(output)
                  THEN Panic("slice index out of range")
                  ELSE Ok([cb |-> [cb EXCEPT !.suffix =
                                     MapPut(cb.suffix, cur, output[pre.v[1] + 1])],
                           output |-> Append(output \o Slice(output, pre.v[1], pre.v[2]),
                                             output[pre.v[1] + 1]),
                           len |-> 1 + pre.v[2]])
             ELSE Err("LZWDecodeError::TooLargeCode", <<code, CodeBookSize(cb)>>)

\* One data code once the codebook is full (lines 207-223)
LzwFullCode(cb, output, code) ==
    LET pre == PrefixOf(cb, code)
    IN  IF (cb.next_index.some /\ code >= cb.next_index.v)
           \/ (~cb.next_index.some /\ code >= cb.clear_code)
        THEN Err("LZWDecodeError::TooLargeCode", <<code, CodeBookSize(cb)>>)
        ELSE IF pre.some
        THEN IF ~SliceOk(output, pre.v[1], pre.v[2])
             THEN Panic("slice index out of range")
             ELSE Ok(Append(output \o Slice(output, pre.v[1], pre.v[2]),
                            SuffixOf(cb, code)))
        ELSE Ok(Append(output, SuffixOf(cb, code)))

\* One iteration of the loop of LZWDecoder::decode (lines 180-311), given what
\* read_n returned for it: either decode returns (done, with res what it
\* returns) or the loop goes on with the locals cb, output, bits.
LzwGoOn(cb, output, bits) ==
    [done |-> FALSE, res |-> None, cb |-> cb, output |-> output, bits |-> bits]

\* a decoder that hands out what it has decoded when a read fails
LzwReturn_PartialOutput(cb, output, bits, res) ==
    [done |-> TRUE, res |-> IF res.kind = "Err" THEN Ok(output) ELSE res,
     cb |-> cb, output |-> output, bits |-> bits]

LzwReturn(cb, output, bits, res) ==
    [done |-> TRUE, res |-> res, cb |-> cb, output |-> output, bits |-> bits]

LzwStep(cb, output, r, current_code_bits, minimum_code_size) ==
    LET code == r.res.value
        ret(x) == LzwReturn(cb, output, current_code_bits, x)
    IN  IF r.res.kind = "Panic" THEN ret(r.res)
        ELSE IF r.res.kind = "Err"
        THEN IF r.res.err = "BitsReadError::UnexpectedEOF"
             THEN ret(Err("LZWDecodeError::UnexpectedEOF", << >>))
             ELSE ret(Err("LZWDecodeError::BitRead", r.res.err))
        ELSE IF code = cb.end_of_information_code THEN ret(Ok(output))
        ELSE IF code = cb.clear_code
        THEN LzwGoOn(CodeBookClear(cb), output, minimum_code_size + 1)
        ELSE IF is_full(cb)
        THEN LET f == LzwFullCode(cb, output, code)
             IN  IF f.kind = "Ok" THEN LzwGoOn(cb, f.value, current_code_bits)
                 ELSE ret(f)
        ELSE LET d == LzwDataCode(cb, output, code)
                 a == LzwAdvance(d.value.cb, d.value.output, current_code_bits,
                                 d.value.len)
             IN  IF d.kind = "Ok" THEN LzwGoOn(a.cb, a.output, a.bits)
                 ELSE ret(d)

\* The loop of LZWDecoder::decode: LzwIteration is one iteration and those
\* that follow it, s being what the iteration did
RECURSIVE LzwLoop(_, _, _, _, _)
LzwContinue(s, bit_reader, minimum_code_size) ==
    IF s.done THEN s.res
    ELSE LzwLoop(s.cb, s.output, bit_reader, s.bits, minimum_code_size)

LzwIteration(cb, output, r, current_code_bits, minimum_code_size) ==
    LzwContinue(LzwStep(cb, output, r, current_code_bits, minimum_code_size),
                r.br, minimum_code_size)

LzwLoop(cb, output, bit_reader, current_code_bits, minimum_code_size) ==
    LzwIteration(cb, output, read_n(bit_reader, current_code_bits, CODE_BITS),
                 current_code_bits, minimum_code_size)

\* LZWDecoder::decode
LZWDecode(data, minimum_code_size, checks) ==
    LET nb == CodeBookNew(minimum_code_size, checks)
    IN  IF nb.kind = "Panic" THEN nb
        ELSE IF minimum_code_size <= 1 \/ minimum_code_size >= 11
        THEN Err("LZWDecodeError::InvalidMinimumCodeSize", << >>)
        ELSE LzwLoop(nb.value, << >>, LittleEndianReaderNew(data),
                     minimum_code_size + 1, minimum_code_size)

(***************************************************************************)
(* image_buffer.rs: ImageBuffer<RGB<u8>, Vec<u8>>, a record                *)
(* [width, height, data] with data the sequence of subpixels.              *)
(***************************************************************************)
CHANNEL_COUNT == 3

\* ImageBuffer::new
ImageBufferNew(width, height) ==
    [width |-> width, height |-> height,
     data |-> [i \in 1..(width * height * CHANNEL_COUNT) |-> 0]]

(***************************************************************************)
(* The u32 arguments of put_rect.  A u32 is kept as the integer of 32 bits *)
(* with a sign that has the same bits: the values below 2^31 as they are,  *)
(* the values from 2^31 on as value - 2^32, so that u32::MAX is -1.        *)
(***************************************************************************)
U32_MAX == -1

I32_MAX == 2147483647

I32_MIN == -I32_MAX - 1

\* the u32 is 2^31 or more
U32Big(a) == a < 0

\* a < b for two u32
U32Less(a, b) == IF U32Big(a) = U32Big(b) THEN a < b ELSE U32Big(b)

\* a + b leaves the u32 range
U32AddOverflows(a, b) ==
    IF U32Big(a) /\ U32Big(b) THEN TRUE
    ELSE IF ~U32Big(a) /\ ~U32Big(b) THEN FALSE
    ELSE a + b >= 0

\* a.wrapping_add(b) for two u32
U32WrappingAdd(a, b) ==
    IF U32Big(a) # U32Big(b) THEN a + b
    ELSE IF ~U32Big(a)
    THEN IF a <= I32_MAX - b THEN a + b ELSE (a + I32_MIN) + (b + I32_MIN)
    ELSE IF a >= I32_MIN - b THEN a + b ELSE (a - I32_MIN) + (b - I32_MIN)

\* put_rect, the bound of one of its loops: `y < image_h && y < offset_y +
\* height` with y from offset_y on.  The sum is computed when y < image_h, so
\* when offset < image_size; it overflows when it leaves the u32 range, which
\* aborts a build that checks overflow and wraps in one that does not.  The
\* loop visits the values from offset up to image_size and the sum.
LoopOverflows(image_size, offset, size) ==
    U32Less(offset, image_size) /\ U32AddOverflows(offset, size)

LoopRange(image_size, offset, size) ==
    IF ~U32Less(offset, image_size) THEN {}
    ELSE {v \in offset..(image_size - 1) : U32Less(v, U32WrappingAdd(offset, size))}

RectRows(img, offset_y, height) == LoopRange(img.height, offset_y, height)

RectCols(img, offset_x, width) == LoopRange(img.width, offset_x, width)

\* data_index = (y - offset_y) * width + (x - offset_x)
DataIndex(x, y, offset_x, offset_y, width) == (y - offset_y) * width + (x - offset_x)

\* data.len() < width as usize * height as usize: the product of two u32 is
\* within usize; it is decided by division, and a factor of 2^31 or more
\* makes the product greater than the length of any data unless it is zero
DataTooShort(data, width, height) ==
    /\ width # 0
    /\ height # 0
    /\ (U32Big(width) \/ U32Big(height) \/ Len(data) \div width < height)

\* get_pixel_range(x, y) lies in the data of the image
PixelInData(img, x, y) == (y * img.width + x + 1) * CHANNEL_COUNT <= Len(img.data)

\* a put_rect that zeroes the pixels it does not visit
put_rect_ClearsOutside(img, offset_x, offset_y, width, height, data, checks) ==
    LET rows == RectRows(img, offset_y, height)
        cols == RectCols(img, offset_x, width)
        at(x, y) == DataIndex(x, y, offset_x, offset_y, width)
    IN  IF DataTooShort(data, width, height) THEN Err("()", << >>)
        ELSE IF checks /\ LoopOverflows(img.height, offset_y, height)
        THEN Panic("attempt to add with overflow")
        ELSE IF checks /\ rows # {} /\ LoopOverflows(img.width, offset_x, width)
        THEN Panic("attempt to add with overflow")
        ELSE IF \E y \in rows, x \in cols : at(x, y) >= Len(data) \/ ~PixelInData(img, x, y)
        THEN Panic("index out of bounds")
        ELSE Ok([img EXCEPT !.data =
                   [i \in 1..Len(img.data) |->
                      LET p == (i - 1) \div CHANNEL_COUNT
                          x == p % img.width
                          y == p \div img.width
                      IN  IF x \in cols /\ y \in rows
                          THEN data[at(x, y) + 1][((i - 1) % CHANNEL_COUNT) + 1]
                          ELSE 0]])

\* put_rect: Err(()) when data is shorter than width * height; else every
\* visited (x, y) gets data[data_index] by put_pixel.  checks: the build
\* checks arithmetic overflow.
put_rect(img, offset_x, offset_y, width, height, data, checks) ==
    LET rows == RectRows(img, offset_y, height)
        cols == RectCols(img, offset_x, width)
        at(x, y) == DataIndex(x, y, offset_x, offset_y, width)
    IN  IF DataTooShort(data, width, height) THEN Err("()", << >>)
        ELSE IF checks /\ LoopOverflows(img.height, offset_y, height)
        THEN Panic("attempt to add with overflow")
        ELSE IF checks /\ rows # {} /\ LoopOverflows(img.width, offset_x, width)
        THEN Panic("attempt to add with overflow")
        ELSE IF \E y \in rows, x \in cols : at(x, y) >= Len(data) \/ ~PixelInData(img, x, y)
        THEN Panic("index out of bounds")
        ELSE Ok([img EXCEPT !.data =
                   [i \in 1..Len(img.data) |->
                      LET p == (i - 1) \div CHANNEL_COUNT
                          x == p % img.width
                          y == p \div img.width
                      IN  IF x \in cols /\ y \in rows
                          THEN data[at(x, y) + 1][((i - 1) % CHANNEL_COUNT) + 1]
                          ELSE img.data[i]]])

\* ImageBuffer::from_container: None if buffer.len() >= width * height *
\* CHANNEL_COUNT, else the image over the buffer
from_container(width, height, buffer) ==
    IF Len(buffer) >= width * height * CHANNEL_COUNT THEN None
    ELSE Some([width |-> width, height |-> height, data |-> buffer])

(***************************************************************************)
(* blocks/table_based_image.rs                                             *)
(***************************************************************************)
TBI_BLOCK_SIZE == 9

\* impl From<&[u8; 9]> for ImageDescriptor
ImageDescriptorFrom(value) ==
    [image_left_position |-> U16FromLe(value[1], value[2]),
     image_top_position |-> U16FromLe(value[3], value[4]),
     image_width |-> U16FromLe(value[5], value[6]),
     image_height |-> U16FromLe(value[7], value[8]),
     flags |-> value[9]]

local_color_table_flag(d) == Bits(d.flags, 7, 1) # 0

interlace_flag(d) == Bits(d.flags, 6, 1) # 0

id_sort_flag(d) == Bits(d.flags, 5, 1) # 0

local_color_table_size_flag(d) == Bits(d.flags, 0, 3)

\* TableBasedImage::parse, its end (lines 313-317): the image of the decoded
\* data, sb being what read_subblock returned and lzw what the decoder did
TableBasedImageOf(sb, lzw, descriptor, color_table_opt) ==
    IF lzw.kind = "Panic"
    THEN [res |-> lzw, eof |-> FALSE, rest |-> sb.rest]
    ELSE IF lzw.kind = "Err"
    THEN [res |-> Err("TableBasedImageParseError::InvalidLZWCode", << >>),
          eof |-> FALSE, rest |-> sb.rest]
    ELSE [res |-> Ok([descriptor |-> descriptor, color_table |-> color_table_opt,
                      image_data |-> lzw.value]),
          eof |-> FALSE, rest |-> sb.rest]

\* TableBasedImage::parse, from the minimum code size on (lines 306-317)
TableBasedImageData(rd, descriptor, color_table_opt, checks) ==
    LET m == read_n_byte(rd, 1)
        sb == read_subblock(m.rest)
    IN  IF m.res.kind # "Ok"
        THEN [res |-> Err("TableBasedImageParseError::Io", << >>), eof |-> FALSE,
              rest |-> m.rest]
        ELSE IF sb.res.kind # "Ok"
        THEN [res |-> Err("TableBasedImageParseError::Io", << >>), eof |-> sb.eof,
              rest |-> sb.rest]
        ELSE TableBasedImageOf(sb, LZWDecode(sb.res.value, m.res.value[1], checks),
                               descriptor, color_table_opt)

\* TableBasedImage::parse
TableBasedImageParse(rd, checks) ==
    LET b == read_n_byte(rd, TBI_BLOCK_SIZE)
        descriptor == ImageDescriptorFrom(b.res.value)
        ct == ColorTableTryFromReader(b.rest, local_color_table_size_flag(descriptor),
                                      id_sort_flag(descriptor))
    IN  IF b.res.kind # "Ok"
        THEN [res |-> Err("TableBasedImageParseError::Io", << >>), eof |-> FALSE,
              rest |-> b.rest]
        ELSE IF local_color_table_flag(descriptor)
        THEN IF ct.res.kind # "Ok"
             THEN [res |-> Err("TableBasedImageParseError::InvalidColorTable", << >>),
                   eof |-> FALSE, rest |-> ct.rest]
             ELSE TableBasedImageData(ct.rest, descriptor, Some(ct.res.value), checks)
        ELSE TableBasedImageData(b.rest, descriptor, None, checks)

\* impl From<TableBasedImageParseError> for GIFParseError
GIFParseErrorFromTBI(e) ==
    IF e.err = "TableBasedImageParseError::Io"
    THEN Err("Io", "io error during image data block read")
    ELSE IF e.err = "TableBasedImageParseError::InvalidColorTable"
    THEN Err("InvalidColorTable", "invalid local color table")
    ELSE Err("InvalidLZWCode", << >>)

(***************************************************************************)
(* blocks/mod.rs and blocks/categories.rs: separators, labels, categories  *)
(***************************************************************************)
\* BlockSeparator::try_from_u8 with `_ => Some(BlockSeparator::Extension)` for
\* its last arm, as impl From<BlockLabel> for BlockSeparator has it
BlockSeparatorTryFromU8_Total(value) ==
    IF value = 44 THEN Some("Image")
    ELSE IF value = 59 THEN Some("Trailer")
    ELSE Some("Extension")

\* BlockSeparator::try_from_u8
BlockSeparatorTryFromU8(value) ==
    IF value = 44 THEN Some("Image")             \* 0x2c
    ELSE IF value = 59 THEN Some("Trailer")      \* 0x3B
    ELSE IF value = 33 THEN Some("Extension")    \* 0x21
    ELSE None

\* BlockSeparator::can_be_type
can_be_type(separator, check) ==
    IF separator = "Image" /\ check = "Graphic" THEN TRUE
    ELSE IF separator = "Trailer" /\ check = "Trailer" THEN TRUE
    ELSE IF separator = "Extension" /\ check # "Trailer" THEN TRUE
    ELSE FALSE

\* impl From<u8> for BlockLabelType
BlockLabelTypeFromU8(value) ==
    IF value = 59 THEN "Trailer"
    ELSE IF value \in 0..127 THEN "Graphic"
    ELSE IF value \in 128..249 THEN "Control"
    ELSE "SpecialPurpose"

\* BlockLabel::try_from_u8
BlockLabelTryFromU8(value) ==
    IF value = 44 THEN Some("ImageDescriptor")
    ELSE IF value = 1 THEN Some("PlainTextExtension")
    ELSE IF value = 249 THEN Some("GraphicControlExtension")
    ELSE IF value = 59 THEN Some("Trailer")
    ELSE IF value = 254 THEN Some("CommentExtension")
    ELSE IF value = 255 THEN Some("ApplicationExtension")
    ELSE None

\* impl From<BlockLabel> for BlockLabelType
BlockLabelTypeFromLabel(label) ==
    IF label \in {"ImageDescriptor", "PlainTextExtension"} THEN "Graphic"
    ELSE IF label = "GraphicControlExtension" THEN "Control"
    ELSE IF label = "Trailer" THEN "Trailer"
    ELSE "SpecialPurpose"

\* impl TryFrom<BlockLabel> for ControlBlocks
ControlBlocksTryFrom(label) ==
    IF BlockLabelTypeFromLabel(label) # "Control" THEN None
    ELSE IF label = "GraphicControlExtension" THEN Some("GraphicsControlExtension")
    ELSE Some("UnknownBlock")

\* impl TryFrom<BlockLabel> for GraphicRenderingBlocks
GraphicRenderingBlocksTryFrom(label) ==
    IF BlockLabelTypeFromLabel(label) # "Graphic" THEN None
    ELSE IF label = "ImageDescriptor" THEN Some("TableBasedImage")
    ELSE IF label = "PlainTextExtension" THEN Some("PlainTextExtension")
    ELSE Some("UnknownBlock")

\* impl TryFrom<BlockLabel> for SpecialPurposeBlocks
SpecialPurposeBlocksTryFrom(label) ==
    IF BlockLabelTypeFromLabel(label) # "SpecialPurpose" THEN None
    ELSE IF label = "CommentExtension" THEN Some("CommentExtension")
    ELSE IF label = "ApplicationExtension" THEN Some("ApplicationExtension")
    ELSE Some("UnknownBlock")

(***************************************************************************)
(* better_decoder.rs: the state of a GIFDecoder over a slice reader        *)
(***************************************************************************)
VARIABLES
    stream,               \* the bytes the reader was created over
    reader,               \* GIFDecoder.reader: the bytes of stream not read yet
    grammar_state,        \* GIFDecoderState.grammar_state, a ReadNext
    version,              \* GIFDecoderState.version
    logical_dim,          \* GIFDecoderState.logical_dim
    color_resolution,     \* GIFDecoderState.color_resolution
    pixel_aspect_ration,  \* GIFDecoderState.pixel_aspect_ration
    global_color_table,   \* GIFDecoderState.global_color_table
    current_image,        \* GIFDecoder.current_image
    res,                  \* what the last call of next_state returned
    outcome,              \* what decode returned, None while it runs
    pc,                   \* "loop": in decode's loop, "returned": decode is over,
                          \* "call" / "ret": before / after one call of next_state,
                          \* "call f" / "ret f": before / after a call of function f
    lzw,                  \* the locals of LZWDecoder::decode while its loop runs,
                          \* None outside of it
    bit_reader,           \* a LittleEndianReader over stream that is called on
                          \* its own, None where there is none
    cursor,               \* the number of bits the calls of bit_reader have
                          \* returned so far
    call,                 \* the function and the arguments of the last call of
                          \* a function that is called on its own (of a
                          \* LittleEndianWriter: the build and the calls made
                          \* on it so far)
    bit_writer,           \* a LittleEndianWriter that is called on its own,
                          \* None where there is none
    ring                  \* a RingBuffer that is called on its own, None
                          \* where there is none

vars == <<stream, reader, grammar_state, version, logical_dim, color_resolution,
          pixel_aspect_ration, global_color_table, current_image, res, outcome, pc,
          lzw, bit_reader, cursor, call, bit_writer, ring>>

\* The values of ReadNext
RN_Header == [tag |-> "Header"]

RN_LogicalScreenDescriptor == [tag |-> "LogicalScreenDescriptor"]

RN_GlobalColorTable(size, sorted) ==
    [tag |-> "GlobalColorTable", size |-> size, sorted |-> sorted]

RN_BlockType(restriction) == [tag |-> "BlockType", restriction |-> restriction]

RN_ExtensionType(restriction) == [tag |-> "ExtensionType", restriction |-> restriction]

RN_ControlBlock(block) == [tag |-> "ControlBlock", block |-> block]

RN_GraphicsBlock(block) == [tag |-> "GraphicsBlock", block |-> block]

RN_SpecialPurposeBlock(block) == [tag |-> "SpecialPurposeBlock", block |-> block]

RN_End == [tag |-> "End"]

\* GIFDecoder::new sets default_color_table to None and nothing sets it later
default_color_table == None

\* Option::or
OptionOr(a, b) == IF a.some THEN a ELSE b

\* process_table_based_image after the parse (lines 339-379), p being what
\* TableBasedImage::parse returned and image the canvas.  put_rect gets u16
\* values widened to u32: no sum of it overflows, whatever the build checks.
ImageOfParse(image, p, gct) ==
    LET tbi == p.res.value
        color_table == OptionOr(OptionOr(tbi.color_table, gct), default_color_table)
        pixels == [k \in 1..Len(tbi.image_data) |->
                      lookup_fallback(color_table.v, tbi.image_data[k])]
        put == put_rect(image, tbi.descriptor.image_left_position,
                        tbi.descriptor.image_top_position, tbi.descriptor.image_width,
                        tbi.descriptor.image_height, pixels, TRUE)
        out(r, img) == [res |-> r, image |-> Some(img), eof |-> p.eof, rest |-> p.rest]
    IN  IF p.res.kind = "Panic" THEN out(p.res, image)
        ELSE IF p.res.kind = "Err" THEN out(GIFParseErrorFromTBI(p.res), image)
        ELSE IF ~color_table.some
        THEN out(Panic("called Option::unwrap() on a None value"), image)
        ELSE IF interlace_flag(tbi.descriptor) THEN out(Ok(<< >>), image)
        ELSE IF put.kind = "Err" THEN out(Err("ImageDataError", << >>), image)
        ELSE IF put.kind = "Panic" THEN out(put, image)
        ELSE out(Ok(<< >>), put.value)

\* process_table_based_image: the result (Ok(()), the error or the panic),
\* current_image after it and the bytes left
process_table_based_image(rd, image_opt, dim, gct, checks) ==
    ImageOfParse(IF image_opt.some THEN image_opt.v ELSE ImageBufferNew(dim[1], dim[2]),
                 TableBasedImageParse(rd, checks), gct)

\* process_graphic_control_extension: the parse, disposal_method(), todo!()
process_graphic_control_extension(rd) ==
    LET p == GraphicControlExtensionParse(rd)
    IN  [res |-> IF p.res.kind = "Err" THEN GIFParseErrorFromGCE(p.res)
                 ELSE Panic("not yet implemented"),
         eof |-> p.eof, rest |-> p.rest]

\* What next_state leaves alone in all its arms but one
StateUnchanged == UNCHANGED <<version, logical_dim, color_resolution,
                              pixel_aspect_ration, global_color_table, current_image>>

(***************************************************************************)
(* GIFDecoder::next_state, one action per arm of its match.  An arm sets   *)
(* res to what next_state returns; grammar_state is assigned by the caller.*)
(***************************************************************************)
ArmHeader ==
    /\ grammar_state.tag = "Header"
    /\ LET p == HeaderParse(reader)
       IN  /\ reader' \in (IF p.eof THEN AfterEof(reader) ELSE {p.rest})
           /\ version' = IF p.res.kind = "Ok" THEN p.res.value ELSE version
           /\ res' = IF p.res.kind = "Ok" THEN Ok(RN_LogicalScreenDescriptor)
                     ELSE GIFParseErrorFromHeader(p.res)
    /\ UNCHANGED <<logical_dim, color_resolution, pixel_aspect_ration,
                   global_color_table, current_image>>

ArmLogicalScreenDescriptor ==
    /\ grammar_state.tag = "LogicalScreenDescriptor"
    /\ LET p == LogicalScreenDescriptorParse(reader)
           descriptor == p.res.value
       IN  /\ reader' \in (IF p.eof THEN AfterEof(reader) ELSE {p.rest})
           /\ IF p.res.kind = "Ok"
              THEN /\ pixel_aspect_ration' = descriptor.pixel_aspect_ratio
                   /\ logical_dim' = <<descriptor.logical_screen_width,
                                       descriptor.logical_screen_height>>
                   /\ color_resolution' = lsd_color_resolution(descriptor)
                   /\ res' = IF global_color_table_flag(descriptor)
                             THEN Ok(RN_GlobalColorTable(
                                        global_color_table_size(descriptor),
                                        lsd_sort_flag(descriptor)))
                             ELSE Ok(RN_BlockType(None))
              ELSE /\ UNCHANGED <<pixel_aspect_ration, logical_dim, color_resolution>>
                   /\ res' = p.res
    /\ UNCHANGED <<version, global_color_table, current_image>>

ArmGlobalColorTable ==
    /\ grammar_state.tag = "GlobalColorTable"
    /\ LET p == ColorTableTryFromReader(reader, grammar_state.size, grammar_state.sorted)
       IN  /\ reader' = p.rest
           /\ global_color_table' = IF p.res.kind = "Ok" THEN Some(p.res.value)
                                    ELSE global_color_table
           /\ res' = IF p.res.kind = "Ok" THEN Ok(RN_BlockType(None))
                     ELSE GIFParseErrorFromColorTable(p.res)
    /\ UNCHANGED <<version, logical_dim, color_resolution, pixel_aspect_ration,
                   current_image>>

ArmBlockType ==
    /\ grammar_state.tag = "BlockType"
    /\ LET restriction == grammar_state.restriction
           separator == BlockSeparatorTryFromU8(reader[1])
       IN  IF Len(reader) < 1
           THEN /\ reader' \in AfterEof(reader)
                /\ res' = Err("Io", "io error (likely EOF) during block type label reading")
           ELSE /\ reader' = Drop(reader, 1)
                /\ res' = IF ~separator.some
                          THEN Err("UnexpectedBlockDiscriminant", reader[1])
                          ELSE IF restriction.some /\ can_be_type(separator.v, restriction.v)
                          THEN Err("UnexpectedBlockDiscriminant", reader[1])
                          ELSE IF separator.v = "Image"
                          THEN Ok(RN_GraphicsBlock("TableBasedImage"))
                          ELSE IF separator.v = "Extension"
                          THEN Ok(RN_ExtensionType(restriction))
                          ELSE Ok(RN_End)
    /\ StateUnchanged

\* match label { Some(block) => X::try_from(block).expect(..), None => X::UnknownBlock }
\* with converted what X::try_from(block) returns
ExpectBlock(label, converted) ==
    IF ~label.some THEN Ok("UnknownBlock")
    ELSE IF converted.some THEN Ok(converted.v)
    ELSE Panic("expected block to be of type")

ArmExtensionType ==
    /\ grammar_state.tag = "ExtensionType"
    /\ LET restriction == grammar_state.restriction
           label_type == BlockLabelTypeFromU8(reader[1])
           label == BlockLabelTryFromU8(reader[1])
           graphic_label == ExpectBlock(label, GraphicRenderingBlocksTryFrom(label.v))
           control_label == ExpectBlock(label, ControlBlocksTryFrom(label.v))
           special_purpose_label ==
               ExpectBlock(label, SpecialPurposeBlocksTryFrom(label.v))
       IN  IF Len(reader) < 1
           THEN /\ reader' \in AfterEof(reader)
                /\ res' = Err("Io", "io error during extension label read")
           ELSE /\ reader' = Drop(reader, 1)
                /\ res' = IF restriction.some /\ label_type # restriction.v
                          THEN Err("UnexpectedExtensionLabel", reader[1])
                          ELSE IF label_type = "Graphic"
                          THEN IF graphic_label.kind = "Ok"
                               THEN Ok(RN_GraphicsBlock(graphic_label.value))
                               ELSE graphic_label
                          ELSE IF label_type = "Control"
                          THEN IF control_label.kind = "Ok"
                               THEN Ok(RN_ControlBlock(control_label.value))
                               ELSE control_label
                          ELSE IF label_type = "SpecialPurpose"
                          THEN IF special_purpose_label.kind = "Ok"
                               THEN Ok(RN_SpecialPurposeBlock(special_purpose_label.value))
                               ELSE special_purpose_label
                          ELSE Err("UnexpectedExtensionLabel", reader[1])
    /\ StateUnchanged

ArmControlBlock ==
    /\ grammar_state.tag = "ControlBlock"
    /\ IF grammar_state.block = "GraphicsControlExtension"
       THEN LET p == process_graphic_control_extension(reader)
            IN  /\ reader' \in (IF p.eof THEN AfterEof(reader) ELSE {p.rest})
                /\ res' = IF p.res.kind = "Ok" THEN Ok(RN_BlockType(None)) ELSE p.res
       ELSE /\ reader' = reader
            /\ res' = Panic("unknown control block")
    /\ StateUnchanged

GraphicsBlockImage(p) ==
    /\ reader' \in (IF p.eof THEN AfterEof(reader) ELSE {p.rest})
    /\ current_image' = p.image
    /\ res' = IF p.res.kind = "Ok" THEN Ok(RN_BlockType(None)) ELSE p.res

ArmGraphicsBlock ==
    /\ grammar_state.tag = "GraphicsBlock"
    /\ IF grammar_state.block = "TableBasedImage"
       THEN \E checks \in BOOLEAN :
              GraphicsBlockImage(process_table_based_image(
                  reader, current_image, logical_dim, global_color_table, checks))
       ELSE /\ reader' = reader
            /\ current_image' = current_image
            /\ res' = IF grammar_state.block = "PlainTextExtension"
                      THEN Panic("not yet implemented")
                      ELSE Panic("unknown graphic block")
    /\ UNCHANGED <<version, logical_dim, color_resolution, pixel_aspect_ration,
                   global_color_table>>

ArmSpecialPurposeBlock ==
    /\ grammar_state.tag = "SpecialPurposeBlock"
    /\ reader' = reader
    /\ res' = IF grammar_state.block \in {"CommentExtension", "ApplicationExtension"}
              THEN Panic("not yet implemented")
              ELSE Panic("unknown special purpose block extension")
    /\ StateUnchanged

ArmEnd ==
    /\ grammar_state.tag = "End"
    /\ reader' = reader
    /\ res' = Ok(RN_End)
    /\ StateUnchanged

(***************************************************************************)
(* GIFDecode::decode: its loop calls next_state until the grammar state is *)
(* End or an error is returned, then unwraps current_image.                *)
(***************************************************************************)
\* decode's loop without the return of the error of next_state (seen_error
\* is never set): it goes on calling next_state
LoopBody_GoesOnAfterError ==
    /\ pc = "loop"
    /\ grammar_state' = IF res'.kind = "Ok" THEN res'.value ELSE grammar_state
    /\ outcome' = outcome
    /\ pc' = "loop"
    /\ UNCHANGED <<stream, lzw, bit_reader, cursor, call, bit_writer, ring>>

\* lines 412-426: the error is returned, a new state is assigned
LoopBody ==
    /\ pc = "loop"
    /\ grammar_state' = IF res'.kind = "Ok" THEN res'.value ELSE grammar_state
    /\ outcome' = IF res'.kind = "Ok" THEN outcome ELSE Some(res')
    /\ pc' = IF res'.kind = "Ok" THEN "loop" ELSE "returned"
    /\ UNCHANGED <<stream, lzw, bit_reader, cursor, call, bit_writer, ring>>

\* one call of next_state on its own: the decoder's grammar state is not assigned
CallBody ==
    /\ pc = "call"
    /\ UNCHANGED <<stream, grammar_state, outcome, lzw, bit_reader, cursor, call, bit_writer, ring>>
    /\ pc' = "ret"

Body == LoopBody \/ CallBody

DecodeHeader == ArmHeader /\ Body

DecodeLogicalScreenDescriptor == ArmLogicalScreenDescriptor /\ Body

DecodeGlobalColorTable == ArmGlobalColorTable /\ Body

DecodeBlockType == ArmBlockType /\ Body

DecodeExtensionType == ArmExtensionType /\ Body

DecodeControlBlock == ArmControlBlock /\ Body

DecodeGraphicsBlock == ArmGraphicsBlock /\ Body

DecodeSpecialPurposeBlock == ArmSpecialPurposeBlock /\ Body

\* ReadNext::End => Ok(ReadNext::End): decode's loop never calls it
CallEnd == ArmEnd /\ CallBody

\* lines 431-432: Ok(GIFImage::Single(self.current_image.unwrap()))
DecodeFinish ==
    /\ pc = "loop"
    /\ grammar_state.tag = "End"
    /\ outcome' = IF current_image.some
                  THEN Some(Ok([tag |-> "Single", image |-> current_image.v]))
                  ELSE Some(Panic("called Option::unwrap() on a None value"))
    /\ pc' = "returned"
    /\ UNCHANGED <<bit_reader, cursor, call, bit_writer, ring, stream, reader, grammar_state,
                   version, logical_dim, color_resolution, pixel_aspect_ration,
                   global_color_table, current_image, res, lzw>>

(***************************************************************************)
(* The input streams.  A stream is a prefix (the stream may end anywhere)  *)
(* of: a header, a logical screen descriptor, the bytes of a global color  *)
(* table if the descriptor announces one, at most MaxImages well-formed    *)
(* images, one more block of any kind, and the trailer.                    *)
(***************************************************************************)
Le16(n) == <<n % 256, n \div 256>>

RECURSIVE Flatten(_)
Flatten(ss) == IF ss = << >> THEN << >> ELSE Head(ss) \o Flatten(Tail(ss))

Prefixes(S) == UNION {{SubSeq(s, 1, n) : n \in 0..Len(s)} : s \in S}

SeqsUpTo(S, n) == UNION {[1..k -> S] : k \in 0..n}

ColorBytes(n) == [i \in 1..n |-> (i * 20) % 256]

GoodHeaders == {<<71, 73, 70, 56, 57, 97>>, <<71, 73, 70, 56, 55, 97>>}

\* "GIF90a", "GIX89a", "GIF" followed by bytes that are no UTF-8, "gif89a"
BadHeaders == {<<71, 73, 70, 57, 48, 97>>, <<71, 73, 88, 56, 57, 97>>,
               <<71, 73, 70, 255, 57, 97>>, <<103, 105, 102, 56, 57, 97>>}

\* packed bytes of the logical screen descriptor:
\* 0x00, 0x08, 0x70, 0x80, 0x81, 0x87, 0x88, 0x8F
PackedBytes == {0, 8, 112, 128, 129, 135, 136, 143}

LsdBytes(w, h, packed) ==
    Le16(w) \o Le16(h) \o <<packed, 0, 0>>
    \o (IF packed >= 128 THEN ColorBytes(12) ELSE << >>)

\* a chain of data sub-blocks holding `data` in one sub-block
SubBlocks(data) == IF data = << >> THEN <<0>> ELSE <<Len(data)>> \o data \o <<0>>

ImageBody(left, top, w, h, flags, table, mcs, data) ==
    Le16(left) \o Le16(top) \o Le16(w) \o Le16(h) \o <<flags>> \o table
    \o <<mcs>> \o SubBlocks(data)

\* LZW data at minimum code size 2: clear 1 eoi; clear 1 0 2 3 eoi; clear 1 1(=6) eoi
LzwOne == <<76, 1>>

LzwFour == <<12, 52, 5>>

\* well-formed image blocks: 1x1 without and with a local color table, 2x2
\* with one at (1, 0), 1x1 interlaced
GoodImages ==
    {<<44>> \o ImageBody(0, 0, 1, 1, 0, << >>, 2, LzwOne),
     <<44>> \o ImageBody(0, 0, 1, 1, 128, ColorBytes(12), 2, LzwOne),
     <<44>> \o ImageBody(1, 0, 2, 2, 128, ColorBytes(12), 2, LzwFour),
     <<44>> \o ImageBody(0, 0, 1, 1, 192, ColorBytes(12), 2, LzwOne)}

\* image blocks the decoder has to reject: too little data for 2x2 (plain
\* and interlaced), minimum code sizes 1, 13 and 16, a code beyond the table
\* (clear 7), no end of information code, a local color table of size flag 5
BadImages ==
    {<<44>> \o ImageBody(0, 0, 2, 2, 128, ColorBytes(12), 2, LzwOne),
     <<44>> \o ImageBody(0, 0, 2, 2, 192, ColorBytes(12), 2, LzwOne),
     <<44>> \o ImageBody(0, 0, 1, 1, 128, ColorBytes(12), 1, LzwOne),
     <<44>> \o ImageBody(0, 0, 1, 1, 128, ColorBytes(12), 13, LzwOne),
     <<44>> \o ImageBody(0, 0, 1, 1, 128, ColorBytes(12), 16, LzwOne),
     <<44>> \o ImageBody(0, 0, 1, 1, 128, ColorBytes(12), 2, <<60>>),
     <<44>> \o ImageBody(0, 0, 1, 1, 128, ColorBytes(12), 2, <<12>>),
     <<44>> \o ImageBody(0, 0, 1, 1, 133, ColorBytes(12), 2, LzwOne)}

\* extension blocks: graphic control (well-formed, wrong size, wrong
\* terminator), comment, application, plain text, unknown labels of the three
\* categories, the labels 0x3B and 0x2C
Extensions ==
    {<<33, 249, 4, 0, 0, 0, 0, 0>>,
     <<33, 249, 4, 5, 10, 0, 1, 0>>,
     <<33, 249, 5, 0, 0, 0, 0, 0>>,
     <<33, 249, 4, 0, 0, 0, 0, 1>>,
     <<33, 254>> \o SubBlocks(<<72, 105>>),
     <<33, 255, 11>> \o ColorBytes(11) \o SubBlocks(<<1>>),
     <<33, 1, 12>> \o ColorBytes(12) \o SubBlocks(<<72>>),
     <<33, 2>> \o SubBlocks(<<1>>),
     <<33, 128>> \o SubBlocks(<<1>>),
     <<33, 250>> \o SubBlocks(<<1>>),
     <<33, 59>>,
     <<33, 44>> \o ImageBody(0, 0, 1, 1, 128, ColorBytes(12), 2, LzwOne)}

\* a byte that is no block separator
Junk == {<<0>>, <<250>>}

LastBlocks == GoodImages \cup BadImages \cup Extensions \cup Junk \cup {<< >>}

Trailer == <<59>>

Tails == {Flatten(imgs) \o last \o Trailer :
            imgs \in SeqsUpTo(GoodImages, MaxImages), last \in LastBlocks}

\* every header, followed by one descriptor
HeaderStreams ==
    {h \o LsdBytes(1, 1, 0) \o Trailer : h \in GoodHeaders \cup BadHeaders}

\* every logical screen descriptor, followed by nothing or by one image
DescriptorStreams ==
    {<<71, 73, 70, 56, 57, 97>> \o LsdBytes(w, h, packed) \o img \o Trailer :
        w \in 1..MaxDim, h \in 1..MaxDim, packed \in PackedBytes,
        img \in {<< >>, <<44>> \o ImageBody(0, 0, 1, 1, 0, << >>, 2, LzwOne)}}

\* every tail, after a descriptor without and with a global color table
BlockStreams ==
    {<<71, 73, 70, 56, 57, 97>> \o LsdBytes(MaxDim, MaxDim, packed) \o tail :
        packed \in {0, 128}, tail \in Tails}

Streams == Prefixes(HeaderStreams \cup DescriptorStreams \cup BlockStreams)

(***************************************************************************)
(* Spec: GIFDecoder::new(reader).decode() on every stream of Streams       *)
(***************************************************************************)
Init ==
    /\ stream \in Streams
    /\ reader = stream
    /\ grammar_state = RN_Header
    /\ version = "Version89a"
    /\ logical_dim = <<0, 0>>
    /\ color_resolution = 0
    /\ pixel_aspect_ration = 0
    /\ global_color_table = None
    /\ current_image = None
    /\ res = None
    /\ outcome = None
    /\ bit_reader = None
    /\ bit_writer = None
    /\ ring = None
    /\ cursor = 0
    /\ call = None
    /\ pc = "loop"
    /\ lzw = None

Next ==
    \/ DecodeHeader
    \/ DecodeLogicalScreenDescriptor
    \/ DecodeGlobalColorTable
    \/ DecodeBlockType
    \/ DecodeExtensionType
    \/ DecodeControlBlock
    \/ DecodeGraphicsBlock
    \/ DecodeSpecialPurposeBlock
    \/ DecodeFinish

Spec == Init /\ [][Next]_vars

(***************************************************************************)
(* SpecNextState: one call of next_state from every grammar state a        *)
(* ReadNext can have, the restricted ones included, which decode's loop    *)
(* never assigns.                                                          *)
(***************************************************************************)
BlockLabelTypes == {"Graphic", "Trailer", "Control", "SpecialPurpose"}

Restrictions == {None} \cup {Some(c) : c \in BlockLabelTypes}

ReadNextStates ==
    {RN_Header, RN_LogicalScreenDescriptor, RN_End}
    \cup {RN_GlobalColorTable(size, sorted) : size \in 0..7, sorted \in BOOLEAN}
    \cup {RN_BlockType(r) : r \in Restrictions}
    \cup {RN_ExtensionType(r) : r \in Restrictions}
    \cup {RN_ControlBlock(b) : b \in {"GraphicsControlExtension", "UnknownBlock"}}
    \cup {RN_GraphicsBlock(b) :
            b \in {"TableBasedImage", "PlainTextExtension", "UnknownBlock"}}
    \cup {RN_SpecialPurposeBlock(b) :
            b \in {"UnknownBlock", "CommentExtension", "ApplicationExtension"}}

\* what is left to read at the call: nothing, every single byte, every byte
\* before a graphic control extension body, the headers, a descriptor of
\* every packed byte, color tables, and every block with and without its
\* separator and label
CallReaders ==
    {<< >>}
    \cup {<<b>> \o t : b \in Byte, t \in {<< >>, <<4, 0, 0, 0, 0, 0>>}}
    \cup GoodHeaders \cup BadHeaders
    \cup {LsdBytes(1, MaxDim, packed) : packed \in PackedBytes}
    \cup {ColorBytes(n) : n \in {11, 12, 24}}
    \cup {Drop(b, k) : b \in GoodImages \cup BadImages \cup Extensions, k \in 0..2}

InitNextState ==
    /\ stream \in CallReaders
    /\ reader = stream
    /\ grammar_state \in ReadNextStates
    /\ version = "Version89a"
    /\ logical_dim = <<MaxDim, MaxDim>>
    /\ color_resolution = 0
    /\ pixel_aspect_ration = 0
    /\ global_color_table \in {None, Some([entries |-> FilledEntries(ColorBytes(12), 12),
                                           size |-> 12, sorted |-> FALSE])}
    /\ current_image = None
    /\ res = None
    /\ outcome = None
    /\ bit_reader = None
    /\ bit_writer = None
    /\ ring = None
    /\ cursor = 0
    /\ call = None
    /\ pc = "call"
    /\ lzw = None

NextNextState ==
    \/ DecodeHeader
    \/ DecodeLogicalScreenDescriptor
    \/ DecodeGlobalColorTable
    \/ DecodeBlockType
    \/ DecodeExtensionType
    \/ DecodeControlBlock
    \/ DecodeGraphicsBlock
    \/ DecodeSpecialPurposeBlock
    \/ CallEnd

SpecNextState == InitNextState /\ [][NextNextState]_vars

(***************************************************************************)
(* SpecUnit: one call of a function of the decoder on its own, on every    *)
(* input of a bounded set.  pc is "call f" before the call of f and        *)
(* "ret f" after it; stream is the reader the call was given, reader what  *)
(* is left of it, res what the call returned.                              *)
(***************************************************************************)
MaxBlocks == 2

\* graphic control extension bodies, whole, cut short and followed by more
GceBodies ==
    {<<size, packed, d1, d2, t, term>> :
        size \in {0, 4, 5, 255}, packed \in {0, 5, 255}, d1 \in {0, 10, 255},
        d2 \in {0, 1, 255}, t \in {0, 7}, term \in {0, 1}}

GceInputs == Prefixes(GceBodies) \cup {b \o <<59>> : b \in GceBodies}

\* the payloads of data sub-blocks, zero bytes among them
PayloadBlocks == {<<7>>, <<0, 9>>, <<1, 0, 2>>}

BlockLists == SeqsUpTo(PayloadBlocks, MaxBlocks)

\* the bytes that may follow a chain of sub-blocks
ChainTails == {<< >>, <<0>>, <<5, 1>>}

\* a chain of data sub-blocks: every block behind its length, then the
\* terminator
RECURSIVE Chain(_)
Chain(blocks) ==
    IF blocks = << >> THEN <<0>>
    ELSE <<Len(Head(blocks))>> \o Head(blocks) \o Chain(Tail(blocks))

ChainInputs ==
    {Chain(blocks) \o tail : blocks \in BlockLists, tail \in ChainTails}
    \cup Prefixes({Chain(blocks) : blocks \in BlockLists})

UnitUnchanged ==
    UNCHANGED <<bit_reader, cursor, call, bit_writer, ring, stream, grammar_state, version,
                logical_dim, color_resolution, pixel_aspect_ration,
                global_color_table, current_image, outcome, lzw>>

CallGraphicControlExtensionParse ==
    /\ pc = "call GraphicControlExtension::parse"
    /\ LET p == GraphicControlExtensionParse(reader)
       IN  /\ reader' \in (IF p.eof THEN AfterEof(reader) ELSE {p.rest})
           /\ res' = p.res
    /\ pc' = "ret GraphicControlExtension::parse"
    /\ UnitUnchanged

CallReadSubblock ==
    /\ pc = "call read_subblock"
    /\ LET p == read_subblock(reader)
       IN  /\ reader' \in (IF p.eof THEN AfterEof(p.rest) ELSE {p.rest})
           /\ res' = p.res
    /\ pc' = "ret read_subblock"
    /\ UnitUnchanged

CallSkipSubblock ==
    /\ pc = "call skip_subblock"
    /\ LET p == skip_subblock(reader)
       IN  /\ reader' \in (IF p.eof THEN AfterEof(p.rest) ELSE {p.rest})
           /\ res' = p.res
    /\ pc' = "ret skip_subblock"
    /\ UnitUnchanged

\* the graphic control extensions that parse can return: every packed byte
GceBlocks ==
    [flags : Byte, delay_time : {0, 300}, transparent_color_index : {0, 7}]

\* application extension bodies: the size byte, 8 identifier bytes, 3 bytes
\* of authentication code and a chain of sub-blocks, whole and cut short
AppHeads ==
    {<<size>> \o id : size \in {11, 0, 12},
                      id \in {<<78, 69, 84, 83, 67, 65, 80, 69, 50, 46, 48>>,
                              <<1, 2, 3, 4, 5, 6, 7, 8, 9, 10, 11>>}}

AppInputs == {h \o c : h \in AppHeads, c \in ChainInputs} \cup Prefixes(AppHeads)

CallDisposalMethod ==
    /\ pc = "call GraphicControlExtension::disposal_method"
    /\ res' = Ok(disposal_method(call))
    /\ pc' = "ret GraphicControlExtension::disposal_method"
    /\ UNCHANGED reader
    /\ UnitUnchanged

CallApplicationExtensionParse ==
    /\ pc = "call ApplicationExtension::parse"
    /\ LET p == ApplicationExtensionParse(reader)
       IN  /\ reader' \in (IF p.eof THEN AfterEof(p.rest) ELSE {p.rest})
           /\ res' = p.res
    /\ pc' = "ret ApplicationExtension::parse"
    /\ UnitUnchanged

InitUnit ==
    /\ \/ /\ pc = "call GraphicControlExtension::parse"
          /\ stream \in GceInputs
          /\ call = None
       \/ /\ pc \in {"call read_subblock", "call skip_subblock"}
          /\ stream \in ChainInputs
          /\ call = None
       \/ /\ pc = "call GraphicControlExtension::disposal_method"
          /\ stream = << >>
          /\ call \in GceBlocks
       \/ /\ pc = "call ApplicationExtension::parse"
          /\ stream \in AppInputs
          /\ call = None
    /\ reader = stream
    /\ grammar_state = RN_End
    /\ version = "Version89a"
    /\ logical_dim = <<0, 0>>
    /\ color_resolution = 0
    /\ pixel_aspect_ration = 0
    /\ global_color_table = None
    /\ current_image = None
    /\ res = None
    /\ outcome = None
    /\ bit_reader = None
    /\ bit_writer = None
    /\ ring = None
    /\ cursor = 0
    /\ lzw = None

NextUnit ==
    \/ CallGraphicControlExtensionParse
    \/ CallReadSubblock
    \/ CallSkipSubblock
    \/ CallDisposalMethod
    \/ CallApplicationExtensionParse

SpecUnit == InitUnit /\ [][NextUnit]_vars

(***************************************************************************)
(* SpecLzw: LZWDecoder::decode, its loop one iteration at a time.  pc is   *)
(* "call LZWDecoder::decode" before the call, "loop LZWDecoder::decode"    *)
(* at the head of the loop and "ret LZWDecoder::decode" after the return;  *)
(* lzw holds the arguments before the loop and the locals from then on.    *)
(***************************************************************************)
\* LZWDecoder::decode, lines 165-178: the codebook is built, then the minimum
\* code size is checked.  lzw holds the arguments before and the locals after.
LzwDecodeBegin ==
    /\ pc = "call LZWDecoder::decode"
    /\ LET nb == CodeBookNew(lzw.minimum_code_size, lzw.overflow_checks)
           bad == lzw.minimum_code_size <= 1 \/ lzw.minimum_code_size >= 11
       IN  /\ res' = IF nb.kind = "Panic" THEN nb
                     ELSE IF bad THEN Err("LZWDecodeError::InvalidMinimumCodeSize", << >>)
                     ELSE res
           /\ pc' = IF nb.kind = "Panic" \/ bad THEN "ret LZWDecoder::decode"
                    ELSE "loop LZWDecoder::decode"
           /\ lzw' = IF nb.kind = "Panic" \/ bad THEN lzw
                     ELSE [minimum_code_size |-> lzw.minimum_code_size,
                           overflow_checks |-> lzw.overflow_checks,
                           codebook |-> nb.value,
                           output |-> << >>,
                           bit_reader |-> LittleEndianReaderNew(reader),
                           current_code_bits |-> lzw.minimum_code_size + 1]
    /\ UNCHANGED <<bit_reader, cursor, call, bit_writer, ring, stream, reader, grammar_state,
                   version, logical_dim, color_resolution, pixel_aspect_ration,
                   global_color_table, current_image, outcome>>

\* the locals after the iteration s, rd being the bit reader after its read_n
LzwLocalsAfter(s, rd) ==
    [lzw EXCEPT !.codebook = s.cb, !.output = s.output, !.bit_reader = rd,
                !.current_code_bits = s.bits]

LzwIterationDone(s, rd) ==
    /\ lzw' = LzwLocalsAfter(s, rd)
    /\ reader' = rd.reader
    /\ res' = IF s.done THEN s.res ELSE res
    /\ pc' = IF s.done THEN "ret LZWDecoder::decode" ELSE "loop LZWDecoder::decode"

\* LZWDecoder::decode, lines 180-311: one iteration of the loop
LzwDecodeIteration ==
    /\ pc = "loop LZWDecoder::decode"
    /\ LET r == read_n(lzw.bit_reader, lzw.current_code_bits, CODE_BITS)
       IN  LzwIterationDone(LzwStep(lzw.codebook, lzw.output, r, lzw.current_code_bits,
                                    lzw.minimum_code_size),
                            r.br)
    /\ UNCHANGED <<bit_reader, cursor, call, bit_writer, ring, stream, grammar_state, version,
                   logical_dim, color_resolution, pixel_aspect_ration,
                   global_color_table, current_image, outcome>>

(***************************************************************************)
(* GIF LZW code streams as the GIF89a specification (appendix F) defines   *)
(* them, by which the decoder is judged.  A code stream of minimum code    *)
(* size k is a clear code (optional at the start), data codes, and the end *)
(* of information code.  The n-th data code behind a clear code is read    *)
(* when the first free code is 2^k + n (2^k + 2 for n = 1), 4096 at most;  *)
(* it is a symbol below 2^k or a code from 2^k + 2 up to the first free    *)
(* code, and reading it defines the first free code as the string of code  *)
(* n - 1 followed by the first symbol of the string of code n.             *)
(***************************************************************************)
MaxCodes == 3

\* the first free code when the n-th data code is read
RefFirstFree(k, n) == IF Pow2(k) + n > 4096 THEN 4096 ELSE Pow2(k) + n

\* the width the n-th data code is written with: the least width from k + 1
\* on that holds the first free code, 12 at most
RefWidth(k, n) ==
    CHOOSE w \in (k + 1)..12 :
        /\ w = 12 \/ RefFirstFree(k, n) < Pow2(w)
        /\ \A v \in (k + 1)..(w - 1) : RefFirstFree(k, n) >= Pow2(v)

\* the data codes that may stand at place n, the symbols being drawn from syms
RefValidCodes(k, n, syms) ==
    syms \cup (IF n >= 2
               THEN {c \in (Pow2(k) + 2)..RefFirstFree(k, n) : c <= 4095}
               ELSE {})

\* the first symbol of the string of the n-th data code
RECURSIVE RefFirst(_, _, _)
RefFirst(codes, k, n) ==
    IF codes[n] < Pow2(k) THEN codes[n]
    ELSE RefFirst(codes, k, codes[n] - Pow2(k) - 1)

\* the string of code c, and of the n-th data code
RECURSIVE RefString(_, _, _)
RefString(codes, k, c) ==
    IF c < Pow2(k) THEN <<c>>
    ELSE Append(RefString(codes, k, codes[c - Pow2(k) - 1]),
                RefFirst(codes, k, c - Pow2(k)))

\* the symbols that the data codes lo..hi stand for
RECURSIVE RefOutput(_, _, _, _)
RefOutput(codes, k, lo, hi) ==
    IF hi < lo THEN << >>
    ELSE IF lo = hi THEN RefString(codes, k, codes[lo])
    ELSE RefOutput(codes, k, lo, (lo + hi) \div 2)
         \o RefOutput(codes, k, (lo + hi) \div 2 + 1, hi)

\* the bits of value at the given width, least significant first
BitsOf(value, width) == [i \in 1..width |-> (value \div Pow2(i - 1)) % 2]

\* the bits of the data codes lo..hi, each at the width of its place
RECURSIVE CodeBits(_, _, _, _)
CodeBits(codes, k, lo, hi) ==
    IF hi < lo THEN << >>
    ELSE IF lo = hi THEN BitsOf(codes[lo], RefWidth(k, lo))
    ELSE CodeBits(codes, k, lo, (lo + hi) \div 2)
         \o CodeBits(codes, k, (lo + hi) \div 2 + 1, hi)

\* bits packed into bytes, least significant bit first, the last byte filled
\* up with zero bits
BytesOfBits(bits) ==
    [b \in 1..((Len(bits) + 7) \div 8) |->
        LET bit(j) == IF 8 * (b - 1) + j <= Len(bits) THEN bits[8 * (b - 1) + j] ELSE 0
        IN  bit(1) + 2 * bit(2) + 4 * bit(3) + 8 * bit(4) + 16 * bit(5) + 32 * bit(6)
            + 64 * bit(7) + 128 * bit(8)]

\* the bytes of the code stream: the clear code if lead, the data codes, the
\* end of information code
PackCodes(codes, k, lead) ==
    BytesOfBits((IF lead THEN BitsOf(Pow2(k), k + 1) ELSE << >>)
                \o CodeBits(codes, k, 1, Len(codes))
                \o BitsOf(Pow2(k) + 1, RefWidth(k, Len(codes) + 1)))

\* the bits of the data codes of one segment
SegmentBits(codes, k) == CodeBits(codes, k, 1, Len(codes))

\* the symbols one segment stands for
SegmentSymbols(codes, k) == RefOutput(codes, k, 1, Len(codes))

\* a code stream of one segment, with the clear code in front of it if lead,
\* and the symbols it stands for
RefCase(codes, k, lead) ==
    [minimum_code_size |-> k,
     data |-> BytesOfBits((IF lead THEN BitsOf(Pow2(k), k + 1) ELSE << >>)
                          \o SegmentBits(codes, k)
                          \o BitsOf(Pow2(k) + 1, RefWidth(k, Len(codes) + 1))),
     symbols |-> SegmentSymbols(codes, k)]

\* a code stream of two segments with a clear code between them
RefCaseOfTwo(a, b, k) ==
    [minimum_code_size |-> k,
     data |-> BytesOfBits(SegmentBits(a, k)
                          \o BitsOf(Pow2(k), RefWidth(k, Len(a) + 1))
                          \o SegmentBits(b, k)
                          \o BitsOf(Pow2(k) + 1, RefWidth(k, Len(b) + 1))),
     symbols |-> SegmentSymbols(a, k) \o SegmentSymbols(b, k)]

\* the segments of up to n data codes over the symbols 0, 1 and the greatest
\* byte below 2^k
RECURSIVE RefCodeSeqs(_, _)
RefCodeSeqs(k, n) ==
    IF n = 0 THEN {<< >>}
    ELSE RefCodeSeqs(k, n - 1)
         \cup {Append(cs, c) :
                 cs \in {x \in RefCodeSeqs(k, n - 1) : Len(x) = n - 1},
                 c \in RefValidCodes(k, n, {0, 1, IF k > 8 THEN 255 ELSE Pow2(k) - 1})}

LzwSizes == {2, 3, 7, 8, 10}

ShortCases ==
    {RefCase(cs[2], cs[1], lead) :
        cs \in UNION {{<<k, x>> : x \in RefCodeSeqs(k, MaxCodes)} : k \in LzwSizes},
        lead \in BOOLEAN}
    \cup {RefCaseOfTwo(a, b, 2) : a \in RefCodeSeqs(2, MaxCodes), b \in RefCodeSeqs(2, 1)}

\* Code streams that fill the table, at minimum code size 2: 4091 times the
\* symbol 0, which defines the codes 6..4095, then one code of the full table:
\* the last code 4095, and the code 4094 with a clear code and a second
\* segment behind it.
FillLength == MAX_CODE_VALUE - 4

FillCodes(last) ==
    [n \in 1..(FillLength + 1) |-> IF n = FillLength + 1 THEN last ELSE 0]

FillCases ==
    {RefCase(FillCodes(4095), 2, FALSE), RefCaseOfTwo(FillCodes(4094), <<0, 1, 6, 0>>, 2)}

FillData == {c.data : c \in FillCases}

LzwCases == ShortCases \cup FillCases

\* The locals of decode on a stream of FillData after FillLength iterations:
\* every code 6..4094 has its prefix (one symbol of the output) and its
\* suffix, next_index is 4095, the bit reader holds the last seven bits of
\* the byte in which the code after the zeros begins.
FilledBytes == Len(SegmentBits([n \in 1..FillLength |-> 0], 2)) \div 8 + 1

FilledLocals(data) ==
    [minimum_code_size |-> 2,
     overflow_checks |-> TRUE,
     codebook |-> [prefix |-> [e \in 6..4094 |-> <<e - 6, 1>>],
                   suffix |-> [e \in 6..4094 |-> 0],
                   next_index |-> Some(4095),
                   clear_code |-> 4,
                   end_of_information_code |-> 5],
     output |-> [i \in 1..FillLength |-> 0],
     bit_reader |-> [reader |-> Drop(data, FilledBytes),
                     value |-> data[FilledBytes] \div 2,
                     bits |-> 7],
     current_code_bits |-> 12]

\* decode passes through FilledLocals on the streams of FillData
FilledLocalsReached ==
    (/\ pc = "loop LZWDecoder::decode" /\ stream \in FillData
     /\ Len(lzw.output) = FillLength)
    => (lzw = FilledLocals(stream) /\ reader = lzw.bit_reader.reader)

\* the data and the minimum code sizes LZWDecoder::decode is called with:
\* well-formed code streams and bytes that are none
LzwData ==
    {<< >>, LzwOne, LzwFour, <<36, 1>>, <<255, 255>>, <<0, 0, 0>>, <<100, 9, 1>>}

LzwCalls ==
    {[minimum_code_size |-> m, overflow_checks |-> c] : m \in Byte, c \in BOOLEAN}

\* decode is entered with every minimum code size, with every code stream of
\* LzwCases; on the streams of FillData it is also taken up where
\* FilledLocalsReached finds it after FillLength iterations
InitLzw ==
    /\ \/ /\ pc = "call LZWDecoder::decode"
          /\ stream \in LzwData
          /\ lzw \in LzwCalls
          /\ reader = stream
       \/ /\ pc = "call LZWDecoder::decode"
          /\ \E c \in LzwCases :
                /\ stream = c.data
                /\ lzw = [minimum_code_size |-> c.minimum_code_size,
                          overflow_checks |-> TRUE]
          /\ reader = stream
       \/ /\ pc = "loop LZWDecoder::decode"
          /\ stream \in FillData
          /\ lzw = FilledLocals(stream)
          /\ reader = lzw.bit_reader.reader
    /\ grammar_state = RN_End
    /\ version = "Version89a"
    /\ logical_dim = <<0, 0>>
    /\ color_resolution = 0
    /\ pixel_aspect_ration = 0
    /\ global_color_table = None
    /\ current_image = None
    /\ res = None
    /\ outcome = None
    /\ bit_reader = None
    /\ bit_writer = None
    /\ ring = None
    /\ cursor = 0
    /\ call = None

NextLzw ==
    \/ LzwDecodeBegin
    \/ LzwDecodeIteration

SpecLzw == InitLzw /\ [][NextLzw]_vars

(***************************************************************************)
(* SpecBits: a LittleEndianReader over stream and the calls of read_bit    *)
(* and read_n made on it, one after the other.  call is the last call,     *)
(* res what it returned, cursor the number of bits the calls have returned *)
(* so far.                                                                 *)
(***************************************************************************)
MaxBitBytes == 9

\* the input: bytes of every kind of bit pattern, in streams of every length
\* up to MaxBitBytes
BitPatterns ==
    {<<165, 255, 0, 128, 1, 90, 60, 195, 129, 255, 7>>,
     <<1, 2, 4, 8, 16, 32, 64, 128, 254, 127, 170>>}

BitStreams == {SubSeq(b, 1, n) : b \in BitPatterns, n \in {0, 2, MaxBitBytes}}

u8 == PrimitiveType("u8", 1, FALSE)

i8 == PrimitiveType("i8", 1, TRUE)

u16 == PrimitiveType("u16", 2, FALSE)

u32 == PrimitiveType("u32", 4, FALSE)

u64 == PrimitiveType("u64", 8, FALSE)

i64 == PrimitiveType("i64", 8, TRUE)

\* the calls of read_n: the type U and the number of bits
ReadNCalls ==
    {[fn |-> "read_n", U |-> c[1], bits |-> c[2]] :
        c \in {<<u8, 0>>, <<u8, 3>>, <<u8, 8>>, <<u8, 9>>, <<i8, 8>>,
               <<u16, 12>>, <<u32, 32>>, <<u64, 33>>, <<u64, 64>>, <<i64, 64>>}}

BitsUnchanged ==
    UNCHANGED <<stream, grammar_state, version, logical_dim, color_resolution,
                pixel_aspect_ration, global_color_table, current_image, outcome,
                lzw, pc, bit_writer, ring>>

CallReadBit ==
    /\ pc = "LittleEndianReader"
    /\ LET r == read_bit(bit_reader)
       IN  /\ call' = [fn |-> "read_bit"]
           /\ res' = r.res
           /\ bit_reader' = r.br
           /\ reader' = r.br.reader
           /\ cursor' = IF r.res.kind = "Ok" THEN cursor + 1 ELSE cursor
    /\ BitsUnchanged

CallReadN ==
    /\ pc = "LittleEndianReader"
    /\ \E c \in ReadNCalls :
          LET r == read_n_u128(bit_reader, c.bits, c.U)
          IN  /\ call' = c
              /\ res' = r.res
              /\ bit_reader' = r.br
              /\ reader' = r.br.reader
              /\ cursor' = IF r.res.kind = "Ok" THEN cursor + c.bits ELSE cursor
    /\ BitsUnchanged

InitBits ==
    /\ pc = "LittleEndianReader"
    /\ stream \in BitStreams
    /\ reader = stream
    /\ bit_reader = LittleEndianReaderNew(stream)
    /\ bit_writer = None
    /\ ring = None
    /\ cursor = 0
    /\ call = None
    /\ grammar_state = RN_End
    /\ version = "Version89a"
    /\ logical_dim = <<0, 0>>
    /\ color_resolution = 0
    /\ pixel_aspect_ration = 0
    /\ global_color_table = None
    /\ current_image = None
    /\ res = None
    /\ outcome = None
    /\ lzw = None

NextBits ==
    \/ CallReadBit
    \/ CallReadN

SpecBits == InitBits /\ [][NextBits]_vars

(***************************************************************************)
(* SpecWriter: a LittleEndianWriter over an empty Vec and the calls of     *)
(* write_internal made on it, one after the other, then flush.  call holds *)
(* the build (overflow checks on or off) and the calls made so far, res    *)
(* what the last call returned.                                            *)
(***************************************************************************)
MaxWrites == 3

\* the bytes handed to write_internal: those of the tests of bits.rs, one
\* of which has bits set above the low four
WriteData == {11, 12, 15, 205}

WriteBits == 1..8

WriterUnchanged ==
    UNCHANGED <<stream, reader, bit_reader, cursor, grammar_state, version,
                logical_dim, color_resolution, pixel_aspect_ration,
                global_color_table, current_image, outcome, lzw, ring>>

CallWriteInternal ==
    /\ pc = "LittleEndianWriter"
    /\ Len(call.made) < MaxWrites
    /\ \E data \in WriteData, bits \in WriteBits :
          LET r == write_internal(bit_writer, data, bits, call.overflow_checks)
          IN  /\ call' = [call EXCEPT !.made = Append(@, [data |-> data, bits |-> bits])]
              /\ res' = r.res
              /\ bit_writer' = r.w
              /\ pc' = IF r.res.kind = "Panic" THEN "panicked" ELSE pc
    /\ WriterUnchanged

CallFlush ==
    /\ pc = "LittleEndianWriter"
    /\ LET r == flush(bit_writer)
       IN  /\ res' = r.res
           /\ bit_writer' = r.w
    /\ pc' = "flushed"
    /\ UNCHANGED call
    /\ WriterUnchanged

InitWriter ==
    /\ pc = "LittleEndianWriter"
    /\ bit_writer = LittleEndianWriterNew
    /\ call \in [overflow_checks : BOOLEAN, made : {<< >>}]
    /\ stream = << >>
    /\ reader = << >>
    /\ bit_reader = None
    /\ ring = None
    /\ cursor = 0
    /\ grammar_state = RN_End
    /\ version = "Version89a"
    /\ logical_dim = <<0, 0>>
    /\ color_resolution = 0
    /\ pixel_aspect_ration = 0
    /\ global_color_table = None
    /\ current_image = None
    /\ res = None
    /\ outcome = None
    /\ lzw = None

NextWriter ==
    \/ CallWriteInternal
    \/ CallFlush

SpecWriter == InitWriter /\ [][NextWriter]_vars

(***************************************************************************)
(* formats/gif/ringbuf.rs, RingBuffer<T, CAP> for T = i32: `data` is the   *)
(* array of CAP values (slot k of the array is data[k + 1]), `index` the   *)
(* current slot, and CAP is kept in the record.                            *)
(***************************************************************************)
I32_DEFAULT == 0

\* RingBuffer::new and Default::default
RingBufferNew(CAP) == [CAP |-> CAP, data |-> [k \in 1..CAP |-> I32_DEFAULT], index |-> 0]

\* RingBuffer::new_from
new_from(data, index, CAP) ==
    IF ~(CAP > 0) THEN Panic("assertion failed: CAP > 0")
    ELSE Ok([CAP |-> CAP, data |-> data, index |-> index])

wrapping_add(a, b, CAP) == (a + b) % CAP

wrapping_sub(a, b, CAP) == (CAP + a - b) % CAP

\* &self.data[i]: the access of an array is checked against its length
DataAt(rb, i) ==
    IF i < rb.CAP THEN Ok(rb.data[i + 1])
    ELSE Panic("index out of bounds")

\* RingBuffer::current
current(rb) == DataAt(rb, rb.index)

\* RingBuffer::last
last(rb) == DataAt(rb, wrapping_sub(rb.index, 1, rb.CAP))

\* *rb.current_mut() = value
current_mut(rb, value) ==
    IF rb.index < rb.CAP
    THEN [res |-> Ok(<< >>), rb |-> [rb EXCEPT !.data[rb.index + 1] = value]]
    ELSE [res |-> Panic("index out of bounds"), rb |-> rb]

\* a next that leaves out the modulo
next_NoWrap(rb) == [rb EXCEPT !.index = rb.index + 1]

\* RingBuffer::next
next(rb) == [rb EXCEPT !.index = wrapping_add(rb.index, 1, rb.CAP)]

(***************************************************************************)
(* SpecRing: a RingBuffer<i32, CAP> made by new, default or new_from, and  *)
(* the calls of next and the writes through current_mut made on it, one    *)
(* after the other.  call holds the buffer as it was made and the calls    *)
(* made so far, res what the last call returned.                           *)
(***************************************************************************)
MaxCap == 3

MaxCalls == 5

Caps == 1..MaxCap

\* the values written: those of test_ring_buffer
RingValues == {1, 2, 3}

\* the arguments of new_from: an array that holds 10, 20, ... and every
\* index up to CAP
NewFromCalls ==
    UNION {{[CAP |-> CAP, data |-> [k \in 1..CAP |-> 10 * k], index |-> i] :
               i \in 0..CAP} : CAP \in Caps}

RingUnchanged ==
    UNCHANGED <<stream, reader, bit_reader, bit_writer, cursor, grammar_state,
                version, logical_dim, color_resolution, pixel_aspect_ration,
                global_color_table, current_image, outcome, lzw>>

CallNext ==
    /\ pc = "RingBuffer"
    /\ Len(call.made) < MaxCalls
    /\ ring' = next(ring)
    /\ res' = Ok(<< >>)
    /\ call' = [call EXCEPT !.made = Append(@, [fn |-> "next"])]
    /\ pc' = pc
    /\ RingUnchanged

CallCurrentMut ==
    /\ pc = "RingBuffer"
    /\ Len(call.made) < MaxCalls
    /\ \E value \in RingValues :
          LET r == current_mut(ring, value)
          IN  /\ ring' = r.rb
              /\ res' = r.res
              /\ call' = [call EXCEPT
                             !.made = Append(@, [fn |-> "current_mut", value |-> value])]
              /\ pc' = IF r.res.kind = "Panic" THEN "panicked" ELSE pc
    /\ RingUnchanged

InitRing ==
    /\ pc = "RingBuffer"
    /\ ring \in {RingBufferNew(CAP) : CAP \in Caps}
                \cup {new_from(c.data, c.index, c.CAP).value : c \in NewFromCalls}
    /\ call = [from |-> ring, made |-> << >>]
    /\ res = Ok(<< >>)
    /\ stream = << >>
    /\ reader = << >>
    /\ bit_reader = None
    /\ bit_writer = None
    /\ cursor = 0
    /\ grammar_state = RN_End
    /\ version = "Version89a"
    /\ logical_dim = <<0, 0>>
    /\ color_resolution = 0
    /\ pixel_aspect_ration = 0
    /\ global_color_table = None
    /\ current_image = None
    /\ outcome = None
    /\ lzw = None

NextRing ==
    \/ CallNext
    \/ CallCurrentMut

SpecRing == InitRing /\ [][NextRing]_vars

(***************************************************************************)
(* SpecImage: one call of ImageBuffer::put_rect on a canvas made by new,   *)
(* of ImageBuffer::new, or of ImageBuffer::from_container.  call holds the *)
(* arguments, current_image the canvas of put_rect, res what was returned. *)
(***************************************************************************)
MaxSide == 2

\* a canvas that an earlier image covers: new, then put_rect over the whole
\* of it with pixels different from zero and from those of PixelData
PaintedCanvas(w, h) ==
    put_rect(ImageBufferNew(w, h), 0, 0, w, h,
             [k \in 1..(w * h) |-> <<200 + k, 220 + k, 240 + k>>], TRUE).value

\* the canvases, of every width and height up to MaxSide: zero-filled as new
\* leaves them, and covered by an earlier image
Canvases ==
    {ImageBufferNew(w, h) : w, h \in 0..MaxSide}
    \cup {PaintedCanvas(w, h) : w, h \in 1..MaxSide}

\* the u32 arguments of put_rect: small values, 2^31 - 1 and 2^32 - 1
Offsets == {0, 1, 2, U32_MAX}

Sizes == {0, 1, 2, 3, I32_MAX, U32_MAX}

\* n pixels, every subpixel different from zero and from the others
PixelData(n) == [k \in 1..n |-> <<k, 50 + k, 100 + k>>]

\* the lengths of data: one less than width * height, width * height, one more
DataLengths(width, height) ==
    IF width = 0 \/ height = 0 THEN {0, 1}
    ELSE IF width > 3 \/ height > 3 \/ U32Big(width) \/ U32Big(height) THEN {0, 4}
    ELSE {width * height - 1, width * height, width * height + 1}

PutRectCalls ==
    {[offset_x |-> ox, offset_y |-> oy, width |-> c[1], height |-> c[2],
      data |-> PixelData(c[3]), checks |-> chk] :
        ox \in Offsets, oy \in Offsets, chk \in BOOLEAN,
        c \in UNION {{<<w, h, n>> : n \in DataLengths(w, h)} : w \in Sizes, h \in Sizes}}

\* new and from_container: the dimensions, and buffers one shorter than
\* width * height * CHANNEL_COUNT, as long, and one longer
NewCalls == {[width |-> w, height |-> h] : w, h \in 0..MaxSide}

FromContainerCalls ==
    UNION {{[width |-> c.width, height |-> c.height, buffer |-> [i \in 1..n |-> 7]] :
              n \in {m \in 0..(MaxSide * MaxSide * CHANNEL_COUNT + 1) :
                       m - c.width * c.height * CHANNEL_COUNT \in {-1, 0, 1}}} :
           c \in NewCalls}

ImageUnchanged ==
    UNCHANGED <<stream, reader, grammar_state, version, logical_dim,
                color_resolution, pixel_aspect_ration, global_color_table, outcome,
                lzw, bit_reader, cursor, call, bit_writer, ring>>

CallPutRect ==
    /\ pc = "call ImageBuffer::put_rect"
    /\ LET r == put_rect(current_image.v, call.offset_x, call.offset_y, call.width,
                         call.height, call.data, call.checks)
       IN  /\ res' = IF r.kind = "Ok" THEN Ok(<< >>) ELSE r
           /\ current_image' = IF r.kind = "Ok" THEN Some(r.value) ELSE current_image
    /\ pc' = "ret ImageBuffer::put_rect"
    /\ ImageUnchanged

CallNew ==
    /\ pc = "call ImageBuffer::new"
    /\ res' = Ok(ImageBufferNew(call.width, call.height))
    /\ pc' = "ret ImageBuffer::new"
    /\ UNCHANGED current_image
    /\ ImageUnchanged

CallFromContainer ==
    /\ pc = "call ImageBuffer::from_container"
    /\ res' = from_container(call.width, call.height, call.buffer)
    /\ pc' = "ret ImageBuffer::from_container"
    /\ UNCHANGED current_image
    /\ ImageUnchanged

InitImage ==
    /\ \/ /\ pc = "call ImageBuffer::put_rect"
          /\ current_image \in {Some(c) : c \in Canvases}
          /\ call \in PutRectCalls
       \/ /\ pc = "call ImageBuffer::new"
          /\ current_image = None
          /\ call \in NewCalls
       \/ /\ pc = "call ImageBuffer::from_container"
          /\ current_image = None
          /\ call \in FromContainerCalls
    /\ stream = << >>
    /\ reader = << >>
    /\ grammar_state = RN_End
    /\ version = "Version89a"
    /\ logical_dim = <<0, 0>>
    /\ color_resolution = 0
    /\ pixel_aspect_ration = 0
    /\ global_color_table = None
    /\ res = None
    /\ outcome = None
    /\ lzw = None
    /\ bit_reader = None
    /\ bit_writer = None
    /\ ring = None
    /\ cursor = 0

NextImage ==
    \/ CallPutRect
    \/ CallNew
    \/ CallFromContainer

SpecImage == InitImage /\ [][NextImage]_vars

(***************************************************************************)
(* SpecTermination: GIFDecode::decode on every stream of Spec and          *)
(* LZWDecoder::decode on every call of SpecLzw, run to their end.  Both    *)
(* are sequential code, which takes its next step as long as it has not    *)
(* returned: weak fairness of the next-step action.                         *)
(***************************************************************************)
InitTermination == Init \/ InitLzw

NextTermination == Next \/ NextLzw

\* decode, or LZWDecoder::decode, has not returned yet: it has a next step
Running == pc \notin {"returned", "ret LZWDecoder::decode"}

\* weak fairness of the next step, its enabling condition being Running:
\* a run does not stop for ever in a state that has a next step
NextStepFairness == []<>(~Running) \/ []<><<NextTermination>>_vars

SpecTermination ==
    InitTermination /\ [][NextTermination]_vars /\ NextStepFairness

(***************************************************************************)
(* The claims C1 to C10                                                    *)
(***************************************************************************)
\* C1: decode ends in Ok(image) or in Err(GIFParseError) on every stream; no
\* grammar state aborts it (panic!, todo!, expect or unwrap on None).
C1_DecodeEndsInOkOrErr ==
    pc = "returned" => outcome.some /\ outcome.v.kind \in {"Ok", "Err"}

\* header "GIF89a", a logical screen descriptor of 1x1 without a global color
\* table, the trailer
MinimalStream == <<71, 73, 70, 56, 57, 97, 1, 0, 1, 0, 0, 0, 0, 59>>

\* C2: when decode returns Ok it returns one image (GIFImage::Single) of the
\* width and height of the logical screen; on the stream without an image
\* block (header, descriptor 1x1, trailer) it returns Ok with a 1x1 black
\* canvas.
C2_OkIsOneCanvasOfTheLogicalScreen ==
    pc = "returned" =>
        /\ outcome.v.kind = "Ok" =>
              /\ outcome.v.value.tag = "Single"
              /\ outcome.v.value.image.width = logical_dim[1]
              /\ outcome.v.value.image.height = logical_dim[2]
        /\ stream = MinimalStream =>
              /\ outcome.v.kind = "Ok"
              /\ outcome.v.value.image = ImageBufferNew(1, 1)

\* 04 packed delay_lo delay_hi transparent_index 00
WellFormedGceBody(rd) == Len(rd) >= 6 /\ rd[1] = 4 /\ rd[6] = 0

\* C3: in ControlBlock(GraphicsControl), reading a well-formed graphic
\* control extension body makes BlockType(Some(Graphic)) the next grammar
\* state.
C3_GceSetsGraphicRestriction ==
    [][(/\ pc = "loop"
        /\ grammar_state.tag = "ControlBlock"
        /\ grammar_state.block = "GraphicsControlExtension"
        /\ WellFormedGceBody(reader))
       => (/\ grammar_state'.tag = "BlockType"
           /\ grammar_state'.restriction = Some("Graphic"))]_vars

C6_UnexpectedBlockDiscriminant ==
    [][(/\ pc = "call"
        /\ grammar_state.tag = "BlockType"
        /\ Len(reader) >= 1
        /\ reader[1] \notin {44, 33, 59})
       => (/\ res'.kind = "Err"
           /\ res'.err = "UnexpectedBlockDiscriminant"
           /\ res'.arg = reader[1]
           /\ grammar_state' = grammar_state
           /\ reader' = Tail(reader))]_vars

\* C6, its case: a call in a restricted BlockType state has returned
\* UnexpectedBlockDiscriminant for a byte that is no separator, one byte of
\* several consumed
C6_Witness ==
    /\ pc = "ret"
    /\ grammar_state.tag = "BlockType"
    /\ grammar_state.restriction.some
    /\ Len(stream) > 1
    /\ stream[1] \notin {44, 33, 59}
    /\ res.kind = "Err"
    /\ res.err = "UnexpectedBlockDiscriminant"
    /\ res.arg = stream[1]
    /\ reader = Tail(stream)

\* The category C7 gives a label byte
LabelCategory(b) ==
    IF b = 59 THEN "Trailer"
    ELSE IF b <= 127 THEN "Graphic"
    ELSE IF b <= 249 THEN "Control"
    ELSE "SpecialPurpose"

\* The block state C7 gives a label byte that is no trailer
LabelBlockState(b) ==
    IF LabelCategory(b) = "Graphic"
    THEN RN_GraphicsBlock(IF b = 1 THEN "PlainTextExtension" ELSE "UnknownBlock")
    ELSE IF LabelCategory(b) = "Control"
    THEN RN_ControlBlock(IF b = 249 THEN "GraphicsControlExtension" ELSE "UnknownBlock")
    ELSE RN_SpecialPurposeBlock(IF b = 254 THEN "CommentExtension"
                                ELSE IF b = 255 THEN "ApplicationExtension"
                                ELSE "UnknownBlock")

\* C7: in ExtensionType(r) a label whose category differs from the
\* restriction, or is Trailer, yields UnexpectedExtensionLabel(label); any
\* other label leads to the block state of its category: 0x01 PlainText,
\* 0xF9 GraphicsControl, 0xFE Comment, 0xFF Application, else Unknown.
C7_ExtensionLabelClassified ==
    [][(/\ pc = "call"
        /\ grammar_state.tag = "ExtensionType"
        /\ Len(reader) >= 1)
       => IF \/ LabelCategory(reader[1]) = "Trailer"
             \/ /\ grammar_state.restriction.some
                /\ grammar_state.restriction.v # LabelCategory(reader[1])
          THEN /\ res'.kind = "Err"
               /\ res'.err = "UnexpectedExtensionLabel"
               /\ res'.arg = reader[1]
          ELSE res' = Ok(LabelBlockState(reader[1]))]_vars

\* the block states of the extensions other than the graphic control extension
OtherExtensionStates ==
    {RN_ControlBlock("UnknownBlock"), RN_GraphicsBlock("PlainTextExtension"),
     RN_GraphicsBlock("UnknownBlock"), RN_SpecialPurposeBlock("CommentExtension"),
     RN_SpecialPurposeBlock("ApplicationExtension"),
     RN_SpecialPurposeBlock("UnknownBlock")}

\* C8: in the block state of an extension other than the graphic control
\* extension, the sub-block chain is consumed through its zero terminator
\* and the next grammar state is BlockType(None).
C8_OtherExtensionsAreSkipped ==
    [][(/\ pc = "loop"
        /\ grammar_state \in OtherExtensionStates
        /\ skip_subblock(reader).res.kind = "Ok")
       => (/\ grammar_state' = RN_BlockType(None)
           /\ reader' = skip_subblock(reader).rest)]_vars

\* C9: after the logical screen descriptor the next state is
\* GlobalColorTable(sz, sorted) exactly when bit 7 of the packed byte is
\* set, sz being its bits 0..2 and sorted its bit 3; else BlockType(None).
C9_GlobalColorTableState ==
    [][(/\ pc = "loop"
        /\ grammar_state.tag = "LogicalScreenDescriptor"
        /\ Len(reader) >= 7)
       => grammar_state' =
             IF Bits(reader[5], 7, 1) = 1
             THEN RN_GlobalColorTable(Bits(reader[5], 0, 3), Bits(reader[5], 3, 1) = 1)
             ELSE RN_BlockType(None)]_vars

\* C10: the header fails with Io on fewer than 6 bytes, with
\* UnknownSignature when the first three bytes are not "GIF", with
\* UnknownVersion carrying the three version bytes when they are neither
\* "87a" nor "89a"; otherwise the state becomes LogicalScreenDescriptor.
C10_HeaderOutcomes ==
    [][(pc = "loop" /\ grammar_state.tag = "Header")
       => IF Len(reader) < 6
          THEN res'.kind = "Err" /\ res'.err = "Io"
          ELSE IF SubSeq(reader, 1, 3) # <<71, 73, 70>>
          THEN res'.kind = "Err" /\ res'.err = "UnknownSignature"
          ELSE IF SubSeq(reader, 4, 6) \notin {<<56, 55, 97>>, <<56, 57, 97>>}
          THEN /\ res'.kind = "Err"
               /\ res'.err = "UnknownVersion"
               /\ res'.arg = SubSeq(reader, 4, 6)
          ELSE grammar_state' = RN_LogicalScreenDescriptor]_vars

(***************************************************************************)
(* The claims C11 to C20                                                   *)
(***************************************************************************)
\* C11: for every size_flag in 0..7, parsing a color table consumes exactly
\* 3 * 2^(size_flag+1) bytes and yields a table of 2^(size_flag+1) entries,
\* entry k holding bytes 3k, 3k+1, 3k+2; no size_flag in 0..7 is rejected.
C11_ColorTableLengthAndLayout ==
    [][(/\ pc = "call" /\ grammar_state.tag = "GlobalColorTable"
        /\ Len(reader) >= 3 * Pow2(grammar_state.size + 1))
       => LET entries == Pow2(grammar_state.size + 1)
          IN  /\ res'.kind = "Ok"
              /\ reader' = Drop(reader, 3 * entries)
              /\ global_color_table'.some
              /\ global_color_table'.v.size = entries
              /\ \A k \in 0..(entries - 1) :
                    TableData(global_color_table'.v, k)
                        = <<reader[3 * k + 1], reader[3 * k + 2], reader[3 * k + 3]>>]_vars

\* C12: color table parsing fails with NotEnoughData, surfaced as
\* InvalidColorTable, whenever fewer bytes than the table's length remain,
\* zero bytes included; no table comes out of a truncated stream.
C12_TruncatedColorTableFails ==
    [][(/\ pc = "call" /\ grammar_state.tag = "GlobalColorTable"
        /\ Len(reader) < 3 * Pow2(grammar_state.size + 1))
       => (/\ res'.kind = "Err" /\ res'.err = "InvalidColorTable"
           /\ global_color_table' = global_color_table)]_vars

\* C13: GraphicControlExtension::parse reads exactly 6 bytes; it fails with
\* InvalidBlockSize (surfaced as UnexpectedBlockSize{got, expected: 4}) unless
\* the first byte is 4, with InvalidBlockTerminator unless the sixth byte is
\* 0, and else yields flags = byte 1, delay_time = the little-endian u16 of
\* bytes 2 and 3, transparent_color_index = byte 4.
C13_GceParse ==
    [][(pc = "call GraphicControlExtension::parse" /\ Len(reader) >= 6)
       => /\ reader' = Drop(reader, 6)
          /\ IF reader[1] # 4
             THEN /\ res'.kind = "Err"
                  /\ res'.err = "GraphicControlExtensionParseError::InvalidBlockSize"
                  /\ res'.arg = reader[1]
                  /\ GIFParseErrorFromGCE(res').err = "UnexpectedBlockSize"
                  /\ GIFParseErrorFromGCE(res').arg = [got |-> reader[1], expected |-> 4]
             ELSE IF reader[6] # 0
             THEN /\ res'.kind = "Err"
                  /\ res'.err = "GraphicControlExtensionParseError::InvalidBlockTerminator"
                  /\ GIFParseErrorFromGCE(res').err = "InvalidBlockTerminator"
             ELSE /\ res'.kind = "Ok"
                  /\ res'.value = [flags |-> reader[2],
                                   delay_time |-> reader[3] + 256 * reader[4],
                                   transparent_color_index |-> reader[5]]]_vars

\* a well-formed body with delay_time 0x010A, followed by a trailer, was parsed
C13_Witness ==
    /\ pc = "ret GraphicControlExtension::parse"
    /\ stream = <<4, 5, 10, 1, 7, 0, 59>>
    /\ res.kind = "Ok" /\ res.value.delay_time = 266
    /\ reader = <<59>>

\* the strict prefixes of the chains of sub-blocks: streams that end before
\* the terminator or inside a sub-block
CutChains ==
    UNION {{SubSeq(Chain(blocks), 1, n) : n \in 0..(Len(Chain(blocks)) - 1)} :
              blocks \in BlockLists}

\* C14: read_subblock returns the payloads of all sub-blocks up to the first
\* zero length byte, in order and without the length bytes, and leaves the
\* stream right behind that terminator; it fails with an I/O error when the
\* stream ends before the terminator or inside a sub-block.  skip_subblock
\* consumes the same bytes as read_subblock on every input.
C14_SubblockChain ==
    [][/\ (pc \in {"call read_subblock", "call skip_subblock"})
          => /\ \A blocks \in BlockLists, tail \in ChainTails :
                    (reader = Chain(blocks) \o tail)
                    => /\ res'.kind = "Ok"
                       /\ pc = "call read_subblock" => res'.value = Flatten(blocks)
                       /\ reader' = tail
             /\ (reader \in CutChains) => (res'.kind = "Err" /\ res'.err = "Io")
       /\ (pc = "call skip_subblock")
          => /\ res'.kind = read_subblock(reader).res.kind
             /\ skip_subblock(reader).rest = read_subblock(reader).rest
             /\ skip_subblock(reader).eof = read_subblock(reader).eof]_vars

\* two sub-blocks, the second with a zero byte in it, were read and the bytes
\* behind the terminator are left
C14_Witness ==
    /\ pc = "ret read_subblock"
    /\ stream = <<1, 7, 3, 1, 0, 2, 0, 5, 1>>
    /\ res = Ok(<<7, 1, 0, 2>>)
    /\ reader = <<5, 1>>

\* GenericImage::get_pixel: the pixel of img at (x, y)
get_pixel(img, x, y) ==
    [c \in 1..CHANNEL_COUNT |-> img.data[(y * img.width + x) * CHANNEL_COUNT + c]]

\* the composite of the parsed image tbi on the canvas: the k-th decoded index
\* is at (left + (k mod width), top + (k div width)), with the color that the
\* table gives it
Composited(canvas, tbi, table) ==
    LET d == tbi.descriptor
    IN  \A k \in 0..(Len(tbi.image_data) - 1) :
            LET x == d.image_left_position + (k % d.image_width)
                y == d.image_top_position + (k \div d.image_width)
                i == tbi.image_data[k + 1]
            IN  (x < canvas.width /\ y < canvas.height /\ k \div d.image_width < d.image_height)
                => get_pixel(canvas, x, y)
                      = IF i < table.size THEN TableData(table, i) ELSE RGBDefault

\* what C15 says of one call of process_table_based_image whose parse
\* returned p: the table is the local one, else the global one, else the
\* default, and the canvas holds the composite
CompositeOfParse(p, gct, result, canvas) ==
    LET tbi == p.res.value
        table == OptionOr(OptionOr(tbi.color_table, gct), default_color_table)
    IN  (p.res.kind = "Ok" /\ tbi.descriptor.image_width > 0
         /\ Len(tbi.image_data) = tbi.descriptor.image_width * tbi.descriptor.image_height)
        => /\ result.kind = "Ok"
           /\ table.some
           /\ canvas.some
           /\ Composited(canvas.v, tbi, table.v)

\* C15: the composite step uses the local color table when present, else the
\* global one, else the default; the k-th decoded index i is written as
\* table[i] when i is below the table's size and as RGB(0,0,0) otherwise, at
\* canvas position (left + (k mod width), top + (k div width)).
C15_CompositeStep ==
    [][(pc = "call" /\ grammar_state = RN_GraphicsBlock("TableBasedImage"))
       => CompositeOfParse(TableBasedImageParse(reader, TRUE), global_color_table,
                           res', current_image')]_vars

\* the parsed image p holds fewer decoded indices than its rectangle has pixels
FewerIndicesThanPixels(p) ==
    /\ p.res.kind = "Ok"
    /\ Len(p.res.value.image_data)
          < p.res.value.descriptor.image_width * p.res.value.descriptor.image_height

\* C16: whenever the LZW data of a table-based image decodes to fewer than
\* width * height palette indices, decode fails with ImageDataError and
\* returns no image, whatever the interlace flag of the descriptor.
C16_TooFewIndicesIsImageDataError ==
    [][(/\ pc = "loop" /\ grammar_state = RN_GraphicsBlock("TableBasedImage")
        /\ FewerIndicesThanPixels(TableBasedImageParse(reader, TRUE)))
       => (/\ pc' = "returned" /\ outcome'.some /\ outcome'.v.kind = "Err"
           /\ outcome'.v.err = "ImageDataError")]_vars

\* C17: LZWDecoder::decode with a minimum_code_size outside [2, 10] returns
\* Err(InvalidMinimumCodeSize) without reading a code and without aborting:
\* the codebook construction before the check neither indexes outside the
\* tables of 4096 entries nor shifts by the width of the code type or more.
C17_InvalidMinimumCodeSize ==
    [][(/\ pc = "call LZWDecoder::decode"
        /\ (lzw.minimum_code_size <= 1 \/ lzw.minimum_code_size >= 11))
       => (/\ pc' = "ret LZWDecoder::decode"
           /\ res' = Err("LZWDecodeError::InvalidMinimumCodeSize", << >>)
           /\ reader' = reader)]_vars

\* C18: LZW round trip.  For every minimum code size and every code stream
\* that a GIF LZW encoder can produce, with or without a leading clear code,
\* the streams that fill the table up to code 4095 included, decode returns
\* exactly the symbols the code stream stands for.
C18_LzwRoundTrip ==
    (pc = "ret LZWDecoder::decode")
    => \A c \in LzwCases :
          (stream = c.data /\ lzw.minimum_code_size = c.minimum_code_size)
          => res = Ok(c.symbols)

\* C19: during LZW decoding the code width current_code_bits always lies in
\* [minimum_code_size + 1, 12], whatever the codes and however many clear
\* codes occur.
C19_CodeWidthInRange ==
    (/\ pc \in {"loop LZWDecoder::decode", "ret LZWDecoder::decode"}
     /\ "current_code_bits" \in DOMAIN lzw)
    => (/\ lzw.current_code_bits >= lzw.minimum_code_size + 1
        /\ lzw.current_code_bits <= 12)

\* the table was filled at width 12, a clear code brought the width back to
\* 3, and three codes later it is 4
C19_Witness ==
    /\ pc = "loop LZWDecoder::decode"
    /\ stream \in FillData
    /\ Len(lzw.output) > FillLength + 2
    /\ lzw.codebook.next_index = Some(8)
    /\ lzw.current_code_bits = 4

\* what C20 says of one iteration that leaves decode in its loop: a clear
\* code sets the width to minimum_code_size + 1; else the width grows by one
\* if next_index was advanced to 2^current_code_bits and the width is below
\* 12, and stays as it is otherwise
WidthStep(before, after, code) ==
    LET advanced == after.codebook.next_index # before.codebook.next_index
    IN  after.current_code_bits =
            IF code = before.codebook.clear_code
            THEN before.minimum_code_size + 1
            ELSE IF /\ advanced
                    /\ after.codebook.next_index.v = Pow2(before.current_code_bits)
                    /\ before.current_code_bits < 12
            THEN before.current_code_bits + 1
            ELSE before.current_code_bits

\* C20: the code width is increased by exactly one precisely when next_index,
\* after being advanced, equals 2^current_code_bits (and the width is below
\* 12): the code that allocates index 2^current_code_bits - 1 is read at the
\* old width and the code after it at the new one, so that every code is
\* read at the width a GIF encoder writes it with; the width changes at no
\* other moment except a clear code.
C20_WidthIncrease ==
    /\ [][(pc = "loop LZWDecoder::decode" /\ pc' = "loop LZWDecoder::decode")
          => WidthStep(lzw, lzw', read_n(lzw.bit_reader, lzw.current_code_bits,
                                          CODE_BITS).res.value)]_vars
    /\ [](pc = "loop LZWDecoder::decode"
          => lzw.current_code_bits
                = IF lzw.codebook.next_index.some
                  THEN RefWidth(lzw.minimum_code_size,
                                lzw.codebook.next_index.v - lzw.codebook.clear_code)
                  ELSE lzw.minimum_code_size + 1)

\* at minimum code size 2 the third code has advanced next_index to 8 and
\* the width is 4
C20_Witness ==
    /\ pc = "loop LZWDecoder::decode"
    /\ lzw.minimum_code_size = 2
    /\ stream \notin FillData
    /\ Len(lzw.output) >= 3
    /\ lzw.codebook.next_index = Some(8)
    /\ lzw.current_code_bits = 4

(***************************************************************************)
(* The claims C21 to C30                                                   *)
(***************************************************************************)
\* what read_n returns to the iteration of decode that begins in this state
CodeRead == read_n(lzw.bit_reader, lzw.current_code_bits, CODE_BITS).res

\* the iteration that begins in this state reads the code c
ReadsCode(c) ==
    /\ pc = "loop LZWDecoder::decode"
    /\ CodeRead.kind = "Ok"
    /\ CodeRead.value = c

\* C21: on reading the clear code the decoder sets next_index to None, drops
\* every learned prefix and sets the width to minimum_code_size + 1 before the
\* next code is read; the output produced before the clear is kept, and an
\* end of information code read right after a clear (next_index is None)
\* returns that output.
C21_ClearCode ==
    /\ [][ReadsCode(lzw.codebook.clear_code)
          => /\ pc' = "loop LZWDecoder::decode"
             /\ lzw'.codebook.next_index = None
             /\ DOMAIN lzw'.codebook.prefix = {}
             /\ lzw'.current_code_bits = lzw.minimum_code_size + 1
             /\ lzw'.output = lzw.output]_vars
    /\ [][(ReadsCode(lzw.codebook.end_of_information_code)
           /\ lzw.codebook.next_index = None)
          => /\ lzw.current_code_bits = lzw.minimum_code_size + 1
             /\ pc' = "ret LZWDecoder::decode"
             /\ res' = Ok(lzw.output)]_vars

\* decode has returned the two symbols decoded before a clear code, the end
\* of information code having come right after the clear
C21_Witness ==
    /\ pc = "ret LZWDecoder::decode"
    /\ stream \notin FillData
    /\ "codebook" \in DOMAIN lzw
    /\ lzw.codebook.next_index = None
    /\ lzw.current_code_bits = lzw.minimum_code_size + 1
    /\ res.kind = "Ok"
    /\ Len(res.value) >= 2

\* the iteration that begins in this state reads a data code: neither the
\* clear code nor the end of information code
ReadsDataCode ==
    /\ pc = "loop LZWDecoder::decode"
    /\ CodeRead.kind = "Ok"
    /\ CodeRead.value # lzw.codebook.clear_code
    /\ CodeRead.value # lzw.codebook.end_of_information_code

\* the code read is beyond what the codebook allows at this moment
CodeTooLarge ==
    IF lzw.codebook.next_index.some
    THEN CodeRead.value > lzw.codebook.next_index.v
    ELSE CodeRead.value >= lzw.codebook.clear_code

\* C22: a data code is rejected with TooLargeCode exactly when next_index is
\* None and code >= clear_code, or next_index is Some(n) and code > n; every
\* other data code, code == n included, is decoded and the loop goes on,
\* also once the codebook is full.
C22_TooLargeCode ==
    [][ReadsDataCode
       => IF CodeTooLarge
          THEN /\ pc' = "ret LZWDecoder::decode"
               /\ res'.kind = "Err"
               /\ res'.err = "LZWDecodeError::TooLargeCode"
          ELSE /\ pc' = "loop LZWDecoder::decode"
               /\ Len(lzw'.output) > Len(lzw.output)]_vars

\* the word the codebook holds for a defined code: output[offset..offset +
\* length] of its prefix, then its suffix
EntryWord(cb, output, code) ==
    (IF code \in DOMAIN cb.prefix
     THEN Slice(output, cb.prefix[code][1], cb.prefix[code][2])
     ELSE << >>)
    \o <<SuffixOf(cb, code)>>

\* the symbols the iteration has appended to the output
Appended == SubSeq(lzw'.output, Len(lzw.output) + 1, Len(lzw'.output))

\* the codes above the end of information code that are defined: those
\* below next_index
DefinedCodes(cb) ==
    IF cb.next_index.some
    THEN (cb.end_of_information_code + 1)..(cb.next_index.v - 1)
    ELSE {}

\* the least code above the defined ones
FirstUndefined(cb) ==
    IF cb.next_index.some THEN cb.next_index.v ELSE cb.end_of_information_code + 1

\* the table g is the table f but for the entry k
SameBut(f, g, k) == g = IF k \in DOMAIN g THEN (k :> g[k]) @@ f ELSE f

\* C23: the KwKwK case.  The entry being defined (next_index, while the
\* codebook is not full) has for its prefix the word decoded last; when the
\* code read equals next_index the decoder appends that word followed by its
\* first symbol and records that first symbol as the suffix of the entry; the
\* entries defined stay as they are and the output is only appended to, so
\* that a later reference to the code appends the same word again.
C23_KwKwK ==
    \* the entry begun by a data code has the word just decoded for prefix
    /\ [][(ReadsDataCode /\ pc' = "loop LZWDecoder::decode" /\ ~is_full(lzw'.codebook))
          => lzw'.codebook.prefix[lzw'.codebook.next_index.v]
                = <<Len(lzw.output), Len(lzw'.output) - Len(lzw.output)>>]_vars
    \* the code equal to next_index
    /\ [][(/\ ReadsDataCode
           /\ ~is_full(lzw.codebook)
           /\ lzw.codebook.next_index = Some(CodeRead.value))
          => LET n == CodeRead.value
                 word == Slice(lzw.output, lzw.codebook.prefix[n][1],
                               lzw.codebook.prefix[n][2])
             IN  /\ pc' = "loop LZWDecoder::decode"
                 /\ Appended = Append(word, word[1])
                 /\ SuffixOf(lzw'.codebook, n) = word[1]
                 /\ EntryWord(lzw'.codebook, lzw'.output, n) = Appended]_vars
    \* a reference to a defined code appends the word of its entry, and a
    \* data code changes no entry of a defined code: of the prefixes none but
    \* that of the new next_index, of the suffixes none but that of the old
    /\ [][(ReadsDataCode /\ pc' = "loop LZWDecoder::decode")
          => /\ CodeRead.value \in DefinedCodes(lzw.codebook)
                => Appended = EntryWord(lzw.codebook, lzw.output, CodeRead.value)
             /\ SubSeq(lzw'.output, 1, Len(lzw.output)) = lzw.output
             /\ SameBut(lzw.codebook.prefix, lzw'.codebook.prefix,
                        FirstUndefined(lzw'.codebook))
             /\ SameBut(lzw.codebook.suffix, lzw'.codebook.suffix,
                        FirstUndefined(lzw.codebook))]_vars

\* the code stream 1, 6 at minimum code size 2: the code 6 was read while
\* next_index was 6, and the output is 1 and then the word 1 1
C23_Witness ==
    /\ pc = "loop LZWDecoder::decode"
    /\ stream = RefCase(<<1, 6>>, 2, TRUE).data
    /\ lzw.minimum_code_size = 2
    /\ lzw.codebook.next_index = Some(7)
    /\ lzw.output = <<1, 1, 1>>
    /\ SuffixOf(lzw.codebook, 6) = 1

\* next_index has reached the last code value
TableFull ==
    /\ lzw.codebook.next_index.some
    /\ lzw.codebook.next_index.v >= MAX_CODE_VALUE

\* C24: once the codebook is full (next_index >= 4095) and until the next
\* clear code no entry is allocated or modified (next_index, every prefix and
\* every suffix stay unchanged), the width stays as it is, and each data code
\* that refers to an existing entry (a code below next_index) appends exactly
\* the word of that entry to the output.
C24_FullCodebook ==
    [][(/\ pc = "loop LZWDecoder::decode"
        /\ TableFull
        /\ ~ReadsCode(lzw.codebook.clear_code))
       => /\ lzw'.codebook = lzw.codebook
          /\ lzw'.current_code_bits = lzw.current_code_bits
          /\ (ReadsDataCode /\ CodeRead.value < lzw.codebook.next_index.v)
             => /\ pc' = "loop LZWDecoder::decode"
                /\ Appended = EntryWord(lzw.codebook, lzw.output, CodeRead.value)]_vars

\* the code 4094 has been read with the codebook full: its word, two symbols,
\* is behind the 4091 symbols decoded before, and next_index is still 4095
C24_Witness ==
    /\ pc = "loop LZWDecoder::decode"
    /\ stream \in FillData
    /\ lzw.codebook.next_index = Some(MAX_CODE_VALUE)
    /\ lzw.current_code_bits = 12
    /\ Len(lzw.output) = FillLength + 2
    /\ MAX_CODE_VALUE \notin DOMAIN lzw.codebook.prefix

\* fewer bits are left than the next code has: the bits buffered and the
\* bytes not read yet
StreamEnds ==
    lzw.bit_reader.bits + 8 * Len(lzw.bit_reader.reader) < lzw.current_code_bits

\* C25: decode returns Ok(output) only after reading the end of information
\* code; if the byte stream ends before that code has been read the result is
\* Err(UnexpectedEOF); and an error carries no part of the output decoded so
\* far.
C25_OkOnlyAfterEoi ==
    [][(pc = "loop LZWDecoder::decode" /\ pc' = "ret LZWDecoder::decode")
       => /\ res'.kind = "Ok"
             => (ReadsCode(lzw.codebook.end_of_information_code)
                 /\ res'.value = lzw.output)
          /\ StreamEnds => res' = Err("LZWDecodeError::UnexpectedEOF", << >>)
          /\ res'.kind # "Ok"
             => /\ res'.kind = "Err"
                /\ "value" \notin DOMAIN res'
                /\ res'.err \in {"LZWDecodeError::UnexpectedEOF",
                                 "LZWDecodeError::TooLargeCode"}
                /\ res'.err = "LZWDecodeError::UnexpectedEOF" => res'.arg = << >>
                /\ res'.err = "LZWDecodeError::TooLargeCode"
                   => res'.arg = <<CodeRead.value, CodeBookSize(lzw.codebook)>>]_vars

\* the stream has ended behind data codes: symbols were decoded and decode
\* has returned Err(UnexpectedEOF)
C25_Witness ==
    /\ pc = "ret LZWDecoder::decode"
    /\ res = Err("LZWDecodeError::UnexpectedEOF", << >>)
    /\ "output" \in DOMAIN lzw
    /\ Len(lzw.output) >= 2
    /\ lzw.bit_reader.reader = << >>

\* bit j of the input viewed as one little-endian bit stream
StreamBit(j) == (stream[j \div 8 + 1] \div Pow2(j % 8)) % 2

\* the u128 x has the n bits of the input from the cursor on, and no other
HasStreamBits(x, n) ==
    \A i \in 0..(8 * U128_BYTES - 1) :
        BitOf(x, i) = IF i < n THEN StreamBit(cursor + i) ELSE 0

\* the bits of the input that have not been returned
BitsLeft == 8 * Len(stream) - cursor

\* the reader stands where the cursor is: the bytes it has read, less the
\* bits it holds, are the bits returned.  It does so from the start and, as
\* C26 states, after every call that returns a value; a call that fails for
\* want of input has read bytes that it does not return.
ReaderAtCursor ==
    8 * (Len(stream) - Len(bit_reader.reader)) - bit_reader.bits = cursor

\* C26: for every input and every sequence of calls of read_n with widths in
\* [1, 64] (the type U having that many bits) and of read_bit, each call
\* returns the integer whose bit i is bit cursor + i of the input viewed as
\* one little-endian bit stream, cursor being the number of bits that the
\* calls before it returned: however the reads are split, they hand out the
\* bits of one shift register.
C26_LittleEndianBits ==
    /\ [][(/\ call'.fn = "read_n"
           /\ call'.bits \in 1..64
           /\ call'.bits <= call'.U.BITS
           /\ call'.bits <= BitsLeft
           /\ ReaderAtCursor)
          => (/\ res'.kind = "Ok"
              /\ HasStreamBits(res'.value, call'.bits)
              /\ cursor' = cursor + call'.bits
              /\ ReaderAtCursor')]_vars
    /\ [][(call'.fn = "read_bit" /\ BitsLeft >= 1 /\ ReaderAtCursor)
          => (/\ res' = Ok(StreamBit(cursor) = 1)
              /\ cursor' = cursor + 1
              /\ ReaderAtCursor')]_vars

\* the bits the reader can still hand out: those it holds and the bytes not
\* read yet
BitsRemaining == bit_reader.bits + 8 * Len(bit_reader.reader)

\* C27: read_n::<U>(n) fails with InsufficientTypeSize when n exceeds the bit
\* width of U, and leaves the reader's buffer and the stream untouched; for a
\* width U has, it fails with UnexpectedEOF exactly when fewer than n bits
\* remain (the bits buffered and the bytes not read); read_n(0) returns zero
\* without touching the stream.
C27_ReadNErrors ==
    [][call'.fn = "read_n"
       => /\ call'.bits > call'.U.BITS
             => /\ res' = Err("BitsReadError::UnsufficiantTypeSize", << >>)
                /\ bit_reader' = bit_reader
          /\ call'.bits <= call'.U.BITS
             => (res' = Err("BitsReadError::UnexpectedEOF", << >>)
                 <=> BitsRemaining < call'.bits)
          /\ call'.bits = 0
             => /\ res' = Ok(U128From(0))
                /\ bit_reader' = bit_reader]_vars

\* read_n::<u64>(64) has failed with UnexpectedEOF behind calls that returned
\* bits of a stream of eight bytes or more
C27_Witness ==
    /\ call = [fn |-> "read_n", U |-> u64, bits |-> 64]
    /\ res = Err("BitsReadError::UnexpectedEOF", << >>)
    /\ Len(stream) >= 8
    /\ cursor \in 1..7

\* the number of bits the last call asked for
BitsAsked == IF call.fn = "read_bit" THEN 1 ELSE call.bits

\* C28: between any two operations of the reader the number of buffered bits
\* is in 0..=7 and the buffered value has no bit set at or above that number;
\* a read that the buffered bits suffice for pulls no byte from the stream,
\* and one that ends on a byte boundary pulls the bytes it returns and leaves
\* the buffer empty: the next byte is pulled by the next call that needs a
\* bit.
C28_LazyRefill ==
    /\ [](pc = "LittleEndianReader"
          => /\ bit_reader.bits \in 0..7
             /\ bit_reader.value < Pow2(bit_reader.bits))
    /\ [][(pc = "LittleEndianReader" /\ res'.kind = "Ok")
          => LET n == BitsAsked'
                 more == n - bit_reader.bits
             IN  IF more <= 0
                 THEN /\ bit_reader'.reader = bit_reader.reader
                      /\ bit_reader'.bits = bit_reader.bits - n
                 ELSE /\ Len(bit_reader.reader) - Len(bit_reader'.reader)
                            = (more + 7) \div 8
                      /\ bit_reader'.bits = (8 - (more % 8)) % 8]_vars

\* read_n::<u8>(3) has taken the three bits that were buffered: sixteen bits
\* are returned, two bytes are read and the buffer is empty
C28_Witness ==
    /\ call = [fn |-> "read_n", U |-> u8, bits |-> 3]
    /\ res.kind = "Ok"
    /\ cursor = 16
    /\ ReaderAtCursor
    /\ bit_reader.bits = 0
    /\ Len(bit_reader.reader) = Len(stream) - 2
    /\ Len(stream) > 2

\* v lies in the rectangle's extent from offset on: offset <= v < offset +
\* size, the sum being that of the integers, which no width bounds
InExtent(v, offset, size) ==
    /\ ~U32Big(offset)
    /\ offset <= v
    /\ (U32Big(size) \/ v - offset < size)

\* len(pixels) < w * h, the product being that of the integers
FewerPixelsThan(data, width, height) ==
    /\ width # 0
    /\ height # 0
    /\ (U32Big(width) \/ U32Big(height) \/ width > Len(data) \/ height > Len(data)
        \/ Len(data) < width * height)

\* the pixel of an image at (x, y)
PixelAt(img, x, y) ==
    SubSeq(img.data, (y * img.width + x) * CHANNEL_COUNT + 1,
           (y * img.width + x + 1) * CHANNEL_COUNT)

\* C29: put_rect(ox, oy, w, h, pixels) fails exactly when len(pixels) < w * h;
\* otherwise, for every ox, oy, w and h (rectangles partly or wholly outside
\* the canvas and values whose sums exceed the u32 range included) it
\* completes without aborting and writes pixels[(y - oy) * w + (x - ox)] to
\* each (x, y) with ox <= x < min(ox + w, width) and oy <= y < min(oy + h,
\* height); every other source pixel is dropped and no other pixel of the
\* canvas is written.
C29_PutRectClips ==
    [][pc = "call ImageBuffer::put_rect"
       => IF FewerPixelsThan(call.data, call.width, call.height)
          THEN /\ res' = Err("()", << >>)
               /\ current_image' = current_image
          ELSE /\ res' = Ok(<< >>)
               /\ current_image'.v.width = current_image.v.width
               /\ current_image'.v.height = current_image.v.height
               /\ \A x \in 0..(current_image.v.width - 1),
                     y \in 0..(current_image.v.height - 1) :
                     PixelAt(current_image'.v, x, y)
                        = IF /\ InExtent(x, call.offset_x, call.width)
                             /\ InExtent(y, call.offset_y, call.height)
                          THEN call.data[(y - call.offset_y) * call.width
                                         + (x - call.offset_x) + 1]
                          ELSE PixelAt(current_image.v, x, y)]_vars

\* C30: every buffer that a constructor returns has len(data) == width *
\* height * channels (len(data) >= that product for from_container):
\* new(w, h) returns a zero-filled buffer of exactly that length, and
\* from_container(w, h, buffer) returns absent when the buffer is too small
\* and an image over the buffer otherwise.
C30_ConstructorsKeepLength ==
    /\ [][pc = "call ImageBuffer::new"
          => /\ res'.kind = "Ok"
             /\ res'.value.width = call.width
             /\ res'.value.height = call.height
             /\ Len(res'.value.data) = call.width * call.height * CHANNEL_COUNT
             /\ \A i \in 1..Len(res'.value.data) : res'.value.data[i] = 0]_vars
    /\ [][pc = "call ImageBuffer::from_container"
          => IF Len(call.buffer) < call.width * call.height * CHANNEL_COUNT
             THEN res' = None
             ELSE /\ res'.some
                  /\ res'.v = [width |-> call.width, height |-> call.height,
                               data |-> call.buffer]]_vars


(***************************************************************************)
(* The claims C31 to C40                                                   *)
(***************************************************************************)
\* C31: disposal_method() decodes bits 2..4 of the packed byte of a graphic
\* control extension: 0 is unspecified, 1 is leave in place, 2 is restore
\* background and 3 is restore previous, four distinct disposal methods.
C31_DisposalMethod ==
    [][pc = "call GraphicControlExtension::disposal_method"
       => LET value == Bits(call.flags, 2, 3)
          IN  /\ value = 0 => res'.value = "DisposalMethod::NoDisposal"
              /\ value = 1 => res'.value = "DisposalMethod::DoNotDispose"
              /\ value = 2 => res'.value = "DisposalMethod::RestoreBackground"
              /\ value = 3 => res'.value = "DisposalMethod::RestorePrevious"]_vars


\* decode is past the construction of its codebook
HasCodebook == "codebook" \in DOMAIN lzw

\* the predefined codes are as init left them, but for the suffix of code c
\* being stored(c)
PredefinedKept(cb, stored(_)) ==
    \A c \in 0..(cb.clear_code - 1) :
        /\ PrefixOf(cb, c) = None
        /\ SuffixOf(cb, c) = stored(c)

\* the code itself
SameCode(c) == c

\* C32: the codebook invariant of LZW decoding.  clear_code is
\* 1 << minimum_code_size and the end of information code is clear_code + 1,
\* and they never change; every predefined code c < clear_code has no prefix
\* and the suffix c at all times; next_index is None right after the
\* construction and after every clear, Some(clear_code + 2) after the first
\* data code that follows, and grows by one with every other data code (a
\* full codebook keeps it).
C32_CodebookInvariant ==
    /\ [](HasCodebook
          => /\ lzw.codebook.clear_code = Pow2(lzw.minimum_code_size)
             /\ lzw.codebook.end_of_information_code = lzw.codebook.clear_code + 1
             /\ PredefinedKept(lzw.codebook, SameCode))
    /\ [][pc = "call LZWDecoder::decode" /\ pc' = "loop LZWDecoder::decode"
          => lzw'.codebook.next_index = None]_vars
    /\ [][ReadsCode(lzw.codebook.clear_code)
          => lzw'.codebook.next_index = None]_vars
    /\ [][(ReadsDataCode /\ pc' = "loop LZWDecoder::decode")
          => lzw'.codebook.next_index
               = IF ~lzw.codebook.next_index.some
                 THEN Some(lzw.codebook.clear_code + 2)
                 ELSE IF TableFull THEN lzw.codebook.next_index
                 ELSE Some(lzw.codebook.next_index.v + 1)]_vars


\* C33: the back references of the LZW decoder are well formed.  In every
\* reachable state each learned prefix (offset, length) has length >= 1 and
\* offset + length <= len(output), and while next_index is Some(n) and the
\* codebook is not full prefix[n] is present; so no slice of the output is
\* taken out of bounds and decode never returns PrefixMismatch.
C33_BackReferences ==
    /\ HasCodebook
       => /\ \A k \in DOMAIN lzw.codebook.prefix :
                LET learned == lzw.codebook.prefix[k]
                IN  /\ learned[2] >= 1
                    /\ learned[1] + learned[2] <= Len(lzw.output)
          /\ (lzw.codebook.next_index.some /\ ~TableFull)
             => lzw.codebook.next_index.v \in DOMAIN lzw.codebook.prefix
    /\ (pc = "ret LZWDecoder::decode" /\ HasCodebook)
       => /\ res.kind # "Panic"
          /\ res.kind = "Err" => res.err # "LZWDecodeError::PrefixMismatch"

\* decode is in its loop with a learned word of two symbols or more and the
\* entry under construction registered
C33_Witness ==
    /\ pc = "loop LZWDecoder::decode"
    /\ stream \notin FillData
    /\ lzw.codebook.next_index.some
    /\ lzw.codebook.next_index.v \in DOMAIN lzw.codebook.prefix
    /\ \E k \in DOMAIN lzw.codebook.prefix : lzw.codebook.prefix[k][2] >= 2


\* C34: the state GraphicsBlock(TableBasedImage) is entered only from
\* BlockType on the image discriminant 0x2C: no extension label read in
\* ExtensionType (the bytes 0x21 0x2C in particular) leads to a table-based
\* image being parsed.
C34_ImageOnlyFromBlockType ==
    [][(/\ pc = "call"
        /\ res'.kind = "Ok"
        /\ res'.value.tag = "GraphicsBlock"
        /\ res'.value.block = "TableBasedImage")
       => (/\ grammar_state.tag = "BlockType"
           /\ Len(reader) >= 1
           /\ reader[1] = 44)]_vars


\* C35: the composite step writes the decoded pixels of an image onto the
\* canvas whatever its interlace flag: after a successful
\* process_table_based_image of an interlaced image the canvas pixels inside
\* the image rectangle are the color-table lookups of the decoded indices, in
\* natural row order at least, and not the zero-initialised background.
C35_InterlacedIsComposited ==
    [][(pc = "call" /\ grammar_state = RN_GraphicsBlock("TableBasedImage"))
       => LET p == TableBasedImageParse(reader, TRUE)
              tbi == p.res.value
              table == OptionOr(OptionOr(tbi.color_table, global_color_table),
                                default_color_table)
          IN  (/\ p.res.kind = "Ok"
               /\ interlace_flag(tbi.descriptor)
               /\ tbi.descriptor.image_width > 0
               /\ res'.kind = "Ok")
              => /\ table.some
                 /\ current_image'.some
                 /\ Composited(current_image'.v, tbi, table.v)]_vars


\* C36: ApplicationExtension::parse on a well-formed body (the size byte
\* 0x0B, 8 identifier bytes, 3 bytes of authentication code, a chain of
\* sub-blocks) succeeds with the identifier the 8 bytes behind the size byte,
\* the code the 3 bytes that follow and the data the payloads of the chain,
\* and leaves the stream behind the terminator of the chain; a size byte
\* other than 0x0B yields InvalidBlockSize.
C36_ApplicationExtensionParse ==
    [][(pc = "call ApplicationExtension::parse" /\ Len(reader) >= APP_READ_SIZE)
       => /\ \A blocks \in BlockLists, tail \in ChainTails :
                (reader[1] = 11 /\ Drop(reader, APP_READ_SIZE) = Chain(blocks) \o tail)
                => /\ res'.kind = "Ok"
                   /\ res'.value.application_identifier = SubSeq(reader, 2, 9)
                   /\ res'.value.application_code = SubSeq(reader, 10, 12)
                   /\ res'.value.application_data = Flatten(blocks)
                   /\ reader' = tail
          /\ reader[1] # 11
             => /\ res'.kind = "Err"
                /\ res'.err = "ApplicationExtensionParseError::InvalidBlockSize"]_vars


\* C37: put_rect leaves every pixel of the canvas outside the intersection of
\* the destination rectangle with the canvas as it was, never changes the
\* width, the height or the length of the data of the canvas, and leaves the
\* whole canvas as it was when it fails (len(pixels) < w * h); so a second
\* image keeps every pixel of the first outside its own rectangle.
C37_PutRectFrame ==
    [][pc = "call ImageBuffer::put_rect"
       => /\ current_image'.v.width = current_image.v.width
          /\ current_image'.v.height = current_image.v.height
          /\ Len(current_image'.v.data) = Len(current_image.v.data)
          /\ \A x \in 0..(current_image.v.width - 1),
                y \in 0..(current_image.v.height - 1) :
                ~(/\ InExtent(x, call.offset_x, call.width)
                  /\ InExtent(y, call.offset_y, call.height))
                => PixelAt(current_image'.v, x, y) = PixelAt(current_image.v, x, y)
          /\ FewerPixelsThan(call.data, call.width, call.height)
             => /\ res'.kind = "Err"
                /\ current_image' = current_image]_vars

\* a 1x1 image was put at (1, 0) of a 2x2 canvas that an earlier image
\* covers: its pixel is there, and the others are those of the earlier image
C37_Witness ==
    /\ pc = "ret ImageBuffer::put_rect"
    /\ res = Ok(<< >>)
    /\ call.offset_x = 1
    /\ call.offset_y = 0
    /\ current_image.v.width = 2
    /\ current_image.v.height = 2
    /\ PixelAt(current_image.v, 1, 0) = <<1, 51, 101>>
    /\ PixelAt(current_image.v, 0, 0) = <<201, 221, 241>>
    /\ PixelAt(current_image.v, 1, 1) = <<204, 224, 244>>


\* the bits that the bit reader r of decode has not handed out yet
UnreadBits(r) == 8 * Len(r.reader) + r.bits

\* the grammar states that decode goes through once, before the blocks
Preamble == {"Header", "LogicalScreenDescriptor", "GlobalColorTable"}

RECURSIVE WrittenBits(_)
WrittenBits(made) ==
    IF made = << >> THEN << >>
    ELSE WrittenBits(SubSeq(made, 1, Len(made) - 1))
         \o BitsOf(made[Len(made)].data % Pow2(made[Len(made)].bits),
                   made[Len(made)].bits)

\* what read_n::<u8> returns, call after call, with the widths of `made`
RECURSIVE ReadBack(_, _)
ReadBack(br, made) ==
    IF made = << >> THEN << >>
    ELSE LET r == read_n_u128(br, made[1].bits, u8)
         IN  <<r.res>> \o ReadBack(r.br, Tail(made))

\* C39: no call of write_internal with 1 to 8 bits fails, and after the
\* calls and flush the bytes written are the low `bits` bits of each data
\* value, in the order of the calls, as one little-endian bit stream that is
\* padded with zeros to a whole byte; read_n with the same widths reads
\* the values back from them
C39_WriterBitStream ==
    /\ pc # "panicked"
    /\ pc = "flushed" =>
          /\ res.kind = "Ok"
          /\ bit_writer.writer = BytesOfBits(WrittenBits(call.made))
          /\ ReadBack(LittleEndianReaderNew(bit_writer.writer), call.made)
                = [k \in 1..Len(call.made) |->
                      Ok(U128From(call.made[k].data % Pow2(call.made[k].bits)))]

\* the number of calls of next among the first n calls made on the buffer
RECURSIVE NextsIn(_, _)
NextsIn(made, n) ==
    IF n = 0 THEN 0
    ELSE NextsIn(made, n - 1) + (IF made[n].fn = "next" THEN 1 ELSE 0)

\* the slot that was the current one when call k was made
SlotAt(k) == (call.from.index + NextsIn(call.made, k - 1)) % call.from.CAP

\* the writes made to the slot that is the current one now
WritesToCurrent ==
    {k \in 1..Len(call.made) :
        call.made[k].fn = "current_mut" /\ SlotAt(k) = ring.index}

\* the most recent call of next, 0 if there is none
LastNext ==
    LET nexts == {k \in 1..Len(call.made) : call.made[k].fn = "next"}
    IN  IF nexts = {} THEN 0 ELSE CHOOSE k \in nexts : \A j \in nexts : j <= k

\* the buffer was made by new, by default, or by new_from with an index
\* below CAP
StartsInRange == call.from.index < call.from.CAP

\* index is in [0, CAP), each next has advanced it by one modulo CAP,
\* current() is the value last written to the current slot, and last() is
\* the slot at (index - 1) mod CAP
RingIndexAndSlots ==
    /\ ring.index \in 0..(ring.CAP - 1)
    /\ ring.index = (call.from.index + NextsIn(call.made, Len(call.made))) % ring.CAP
    /\ current(ring)
          = Ok(IF WritesToCurrent = {} THEN call.from.data[ring.index + 1]
               ELSE call.made[CHOOSE k \in WritesToCurrent :
                                 \A j \in WritesToCurrent : j <= k].value)
    /\ last(ring) = Ok(ring.data[((ring.index + ring.CAP - 1) % ring.CAP) + 1])

\* last() is the value written just before the most recent next()
LastIsWrittenBeforeNext ==
    (LastNext > 1 /\ call.made[LastNext - 1].fn = "current_mut")
        => last(ring) = Ok(call.made[LastNext - 1].value)

\* with two slots the buffer holds the value written since the most recent
\* next() and the value written just before it
TwoSlotsHoldCurrentAndPrevious ==
    (/\ ring.CAP = 2
     /\ LastNext > 1 /\ LastNext < Len(call.made)
     /\ call.made[LastNext - 1].fn = "current_mut")
        => ring.data = [k \in 1..2 |->
                           IF k = ring.index + 1
                           THEN call.made[Len(call.made)].value
                           ELSE call.made[LastNext - 1].value]

=============================================================================
